---------------------------- MODULE Spec2Model ----------------------------
(* Lunix:TNG character device and sensor buffers.                          *)
(*                                                                         *)
(* The module models one sensor (struct lunix_sensor_struct), the producer *)
(* that runs lunix_sensor_update on it, the sessions created by            *)
(* lunix_chrdev_open (struct lunix_chrdev_state_struct plus the file       *)
(* position) and the threads that run lunix_chrdev_read on them.  Every    *)
(* shared-memory access of the C code that another context can observe is  *)
(* one step.                                                               *)
EXTENDS Integers, Sequences, FiniteSets, TLC

(***************************************************************************)
(* Bounds of the model.                                                    *)
(***************************************************************************)
\* number of lunix_sensor_update calls in one behaviour
MaxUpdates == 2

\* reader threads, sessions (open file slots), raw samples, read sizes
Threads == {"t1", "t2"}
Sessions == {"s1", "s2"}
\* the frames the producer delivers: <<batt, temp, light>> raw samples
Frames == {<<512, 512, 512>>, <<256, 0, 256>>}
\* the cnt arguments of read
CntVals == {0, 5, 8, 20}

(***************************************************************************)
(* Program constants.                                                      *)
(***************************************************************************)
BATT == 0
TEMP == 1
LIGHT == 2
N_LUNIX_MSR == 3
LUNIX_CHRDEV_BUFSZ == 64
LUNIX_SENSOR_CNT == 16
lunix_sensor_cnt == LUNIX_SENSOR_CNT
Kinds == {BATT, TEMP, LIGHT}
\* minor numbers opened: sensor 0 with type BATT, TEMP, and the invalid type 3
Minors == {0, 1, 3}
\* minor numbers of the device nodes opened where open itself is examined:
\* sensor 0 with the three types and type 3, sensor 15 with types 2 and 7,
\* and two minors of a sensor 16 that does not exist
OpenMinors == {0, 1, 2, 3, 122, 127, 128, 131}

(***************************************************************************)
(* Pure helpers: C integer arithmetic, the lookup tables, snprintf.        *)
(***************************************************************************)
Min(a, b) == IF a < b THEN a ELSE b
Max(a, b) == IF a > b THEN a ELSE b
Abs(a) == IF a < 0 THEN -a ELSE a
\* C division truncates toward zero, the remainder has the dividend's sign
CDiv(a, b) == IF a >= 0 THEN a \div b ELSE -((-a) \div b)
CRem(a, b) == a - b * CDiv(a, b)

\* variant: the millivolts rounded to the nearest instead of cast to long
lookup_voltage_rounded(raw) ==
    IF raw = 0 THEN 0 ELSE CDiv(2 * 1223 * 1023 + raw, 2 * raw)
\* entries of the generated tables for the raw samples of the model
lookup_voltage(raw) == IF raw = 0 THEN 0 ELSE CDiv(1223 * 1023, raw)
\* raw * 5000000 / 65535, the fraction reduced by 5 to stay within 32 bits
lookup_light(raw) == CDiv(raw * 1000000, 13107)
lookup_temperature(raw) ==
    CASE raw = 0 -> -272150
      [] raw = 242 -> -938
      [] raw = 256 -> 650
      [] raw = 512 -> 26035
      [] OTHER -> -272150

DigitChar(d) == SubSeq(<<"0", "1", "2", "3", "4", "5", "6", "7", "8", "9">>, d + 1, d + 1)
RECURSIVE Dec(_)
Dec(n) == IF n < 10 THEN DigitChar(n) ELSE Dec(n \div 10) \o DigitChar(n % 10)
\* %ld
FmtLd(n) == IF n < 0 THEN <<"-">> \o Dec(-n) ELSE Dec(n)
\* %03ld
Fmt03Ld(n) ==
    IF n < 0 THEN FmtLd(n)
    ELSE IF n < 10 THEN <<"0", "0">> \o Dec(n)
    ELSE IF n < 100 THEN <<"0">> \o Dec(n)
    ELSE Dec(n)
\* variant: the remainder is printed with its sign
FormatValueNoAbs(v) ==
    FmtLd(CDiv(v, 1000)) \o <<".">> \o Fmt03Ld(CRem(v, 1000)) \o <<"\n">>
\* the text of "%ld.%03ld\n" for converted_value
FormatValue(v) ==
    FmtLd(CDiv(v, 1000)) \o <<".">> \o Fmt03Ld(Abs(CRem(v, 1000))) \o <<"\n">>
\* snprintf(buf, size, ...): what is stored, and what is returned
SnprintfStored(text, size) == SubSeq(text, 1, Min(Len(text), size - 1))
SnprintfRet(text) == Len(text)

Convert(kind, raw) ==
    CASE kind = BATT -> lookup_voltage(raw)
      [] kind = TEMP -> lookup_temperature(raw)
      [] kind = LIGHT -> lookup_light(raw)

(***************************************************************************)
(* State.                                                                  *)
(***************************************************************************)
VARIABLES
    now,            \* wall clock: what ktime_get_real_seconds() last returned
    values,         \* sensor->msr_data[k]->values[0]
    last_update,    \* sensor->msr_data[k]->last_update
    slock,          \* sensor->lock: "free", "prod" or the thread that holds it
    wq,             \* sensor->wq: the threads queued on it
    running,        \* task state of a thread: FALSE is TASK_INTERRUPTIBLE
    val_by,         \* history: the update call that wrote values[k]
    stamp_by,       \* history: the update call that wrote last_update[k]
    ppc,            \* producer: position in lunix_sensor_update
    pargs,          \* producer: <<batt, temp, light>> of the call
    pstamp,         \* producer: the value ktime_get_real_seconds() returned
    ptodo,          \* producer: the kinds whose last_update is not yet stored
    nupd,           \* number of lunix_sensor_update calls begun
    opened,         \* session slot holds a state allocated by open
    open_ret,       \* result of the last open on the slot
    open_minor,     \* history: the minor number of the last open on the slot
    type,           \* state->type
    sensor,         \* state->sensor: its index in lunix_sensors
    buf_lim,        \* state->buf_lim
    buf_data,       \* state->buf_data
    buf_timestamp,  \* state->buf_timestamp
    lock,           \* state->lock: the count of the semaphore
    f_pos,          \* *f_pos of the open file
    cache_by,       \* history: the update call whose stamp buf_timestamp copies
    pc,             \* thread: position in lunix_chrdev_read
    rs,             \* thread: the session of the call (filp->private_data)
    cnt,            \* thread: the cnt argument of the call, drawn where line 243 first uses it
    raw_data,       \* thread: local raw_data of lunix_chrdev_state_update
    l_last_update,  \* thread: local last_update of lunix_chrdev_state_update
    snap_by,        \* history: <<writer of raw_data, writer of l_last_update>>
    ret,            \* thread: ret of lunix_chrdev_read when it is a byte count
    outcome,        \* thread: how the call ends; "none" until that is decided
    delivered,      \* thread: the bytes copy_to_user gave the caller
    pos0,           \* history: *f_pos when the call reached line 239
    held,           \* thread: downs of state->lock not yet matched by an up
    wrote,          \* history: the call has changed a field of its session
    lunix_protocol_state,   \* struct lunix_protocol_state_struct of the line
    lunix_sensors,  \* the registry: per sensor raw values, stamp, wake-ups
    stream,         \* input: the bytes the line delivers, and what was sent
    fed,            \* input: how many bytes of stream have been delivered
    applied,        \* history: what lunix_protocol_update_sensors was given
    escape_split,   \* history: a call has ended between 0x7D and its byte
    sample,         \* input: a kind and a raw sample, and whether looked up
    converted_value,    \* the value a table lookup returned
    rendered_data,  \* the bytes snprintf stored for converted_value
    rendered_lim    \* the value snprintf returned for it, -1 before the call

sensorVars == <<now, values, last_update, slock, wq, running, val_by, stamp_by>>
prodVars == <<ppc, pargs, pstamp, ptodo, nupd>>
sessVars == <<opened, open_ret, open_minor, type, sensor, buf_lim, buf_data, buf_timestamp, lock, f_pos, cache_by>>
threadVars == <<pc, rs, cnt, raw_data, l_last_update, snap_by, ret, outcome, delivered, pos0, held, wrote>>
vars == <<sensorVars, prodVars, sessVars, threadVars>>
protoVars == <<lunix_protocol_state, lunix_sensors, stream, fed, applied, escape_split>>
renderVars == <<sample, converted_value, rendered_data, rendered_lim>>

NoSession == "nosess"

\* the fields of a session that a read may change, and whether a step does
SessFields(s) == <<buf_data[s], buf_lim[s], buf_timestamp[s], f_pos[s]>>
SessChanged(s) ==
    <<buf_data'[s], buf_lim'[s], buf_timestamp'[s], f_pos'[s]>> # SessFields(s)

(***************************************************************************)
(* Initial state: lunix_sensor_init leaves zeroed pages, no session open.  *)
(***************************************************************************)
InitDriver ==
    /\ now = 0
    /\ values = [k \in Kinds |-> 0]
    /\ last_update = [k \in Kinds |-> 0]
    /\ slock = "free"
    /\ wq = {}
    /\ running = [t \in Threads |-> TRUE]
    /\ val_by = [k \in Kinds |-> 0]
    /\ stamp_by = [k \in Kinds |-> 0]
    /\ ppc = "idle"
    /\ pargs = <<0, 0, 0>>
    /\ pstamp = 0
    /\ ptodo = {}
    /\ nupd = 0
    /\ opened = [s \in Sessions |-> FALSE]
    /\ open_ret = [s \in Sessions |-> "none"]
    /\ open_minor = [s \in Sessions |-> 0]
    /\ type = [s \in Sessions |-> BATT]
    /\ sensor = [s \in Sessions |-> 0]
    /\ buf_lim = [s \in Sessions |-> 0]
    /\ buf_data = [s \in Sessions |-> <<>>]
    /\ buf_timestamp = [s \in Sessions |-> 0]
    /\ lock = [s \in Sessions |-> 1]
    /\ f_pos = [s \in Sessions |-> 0]
    /\ cache_by = [s \in Sessions |-> 0]
    /\ pc = [t \in Threads |-> "idle"]
    /\ rs = [t \in Threads |-> NoSession]
    /\ cnt = [t \in Threads |-> 0]
    /\ raw_data = [t \in Threads |-> 0]
    /\ l_last_update = [t \in Threads |-> 0]
    /\ snap_by = [t \in Threads |-> <<0, 0>>]
    /\ ret = [t \in Threads |-> 0]
    /\ outcome = [t \in Threads |-> "idle"]
    /\ delivered = [t \in Threads |-> <<>>]
    /\ pos0 = [t \in Threads |-> 0]
    /\ held = [t \in Threads |-> 0]
    /\ wrote = [t \in Threads |-> FALSE]

\* lunix_protocol_init on the zeroed state of the line discipline
InitProtocolState ==
    [state |-> "SEEKING_START_BYTE", bytes_read |-> 0, bytes_to_read |-> 1,
     pos |-> 0, next_is_special |-> 0, payload_length |-> 0, packet |-> <<>>]

\* lunix_sensor_init: zeroed measurement pages for every sensor
InitSensors ==
    [i \in 0 .. lunix_sensor_cnt - 1 |->
        [values |-> <<0, 0, 0>>, last_update |-> 0, wakeups |-> 0]]

InitProtocol ==
    /\ lunix_protocol_state = InitProtocolState
    /\ lunix_sensors = InitSensors
    /\ fed = 0
    /\ applied = <<>>
    /\ escape_split = FALSE

NothingRendered ==
    /\ rendered_data = <<>>
    /\ rendered_lim = -1

\* no sample is waiting for its table lookup
NoSample == [kind |-> 0, raw |-> 0, done |-> TRUE]

\* no line is attached: nothing is delivered to the parser
Init ==
    /\ InitDriver
    /\ InitProtocol
    /\ stream = [bytes |-> <<>>, sent |-> <<>>, cut |-> 0]
    /\ sample = NoSample
    /\ converted_value = 0
    /\ NothingRendered

(***************************************************************************)
(* lunix_sensor_update(s, batt, temp, light).                              *)
(***************************************************************************)
\* the call is made (by the protocol parser, one producer at a time)
SensorUpdateCall(frame) ==
    /\ ppc = "idle"
    /\ nupd < MaxUpdates
    /\ nupd' = nupd + 1
    /\ pargs' = frame
    /\ ppc' = "lock"
    /\ UNCHANGED <<pstamp, ptodo>>
    /\ UNCHANGED <<sensorVars, sessVars, threadVars>>

\* spin_lock(&s->lock)
SensorUpdateLock ==
    /\ ppc = "lock"
    /\ slock = "free"
    /\ slock' = "prod"
    /\ ppc' = "values"
    /\ UNCHANGED <<now, values, last_update, wq, running, val_by, stamp_by>>
    /\ UNCHANGED <<pargs, pstamp, ptodo, nupd>>
    /\ UNCHANGED <<sessVars, threadVars>>

\* the three stores to values[0], which nothing reads without the lock, and
\* ktime_get_real_seconds(), the right-hand side of the chained assignment:
\* the wall clock reads tm, the second it read before or a later one (the
\* code only tests stamps for equality, so later is the next second); it
\* never reads 0, the stamp of a sensor that was never updated
SensorUpdateValues(tm) ==
    /\ ppc = "values"
    /\ tm \in {Max(now, 1), now + 1}
    /\ now' = tm
    /\ values' = [k \in Kinds |-> pargs[k + 1]]
    /\ val_by' = [k \in Kinds |-> nupd]
    /\ pstamp' = tm
    /\ ptodo' = Kinds
    /\ ppc' = "stamp"
    /\ UNCHANGED <<last_update, slock, wq, running, stamp_by>>
    /\ UNCHANGED <<pargs, nupd>>
    /\ UNCHANGED <<sessVars, threadVars>>

\* variant: the stamp of a kind left as it was, the update going on to its
\* unlock and wake-up all the same
SensorUpdateStampSkipped(k) ==
    /\ ppc = "stamp"
    /\ k \in ptodo
    /\ ptodo' = ptodo \ {k}
    /\ ppc' = IF ptodo = {k} THEN "unlock" ELSE "stamp"
    /\ UNCHANGED <<now, values, last_update, slock, wq, running, val_by, stamp_by>>
    /\ UNCHANGED <<pargs, pstamp, nupd>>
    /\ UNCHANGED <<sessVars, threadVars>>

\* the three stores of the chained assignment, unsequenced among themselves
SensorUpdateStamp(k) ==
    /\ ppc = "stamp"
    /\ k \in ptodo
    /\ last_update' = [last_update EXCEPT ![k] = pstamp]
    /\ stamp_by' = [stamp_by EXCEPT ![k] = nupd]
    /\ ptodo' = ptodo \ {k}
    /\ ppc' = IF ptodo = {k} THEN "unlock" ELSE "stamp"
    /\ UNCHANGED <<now, values, slock, wq, running, val_by>>
    /\ UNCHANGED <<pargs, pstamp, nupd>>
    /\ UNCHANGED <<sessVars, threadVars>>

\* spin_unlock(&s->lock)
SensorUpdateUnlock ==
    /\ ppc = "unlock"
    /\ slock' = "free"
    /\ ppc' = "wake"
    /\ UNCHANGED <<now, values, last_update, wq, running, val_by, stamp_by>>
    /\ UNCHANGED <<pargs, pstamp, ptodo, nupd>>
    /\ UNCHANGED <<sessVars, threadVars>>

\* wake_up_interruptible(&s->wq): every queued waiter is made runnable and
\* its entry removed (autoremove_wake_function)
SensorUpdateWake ==
    /\ ppc = "wake"
    /\ running' = [t \in Threads |-> running[t] \/ t \in wq]
    /\ wq' = {}
    /\ ppc' = "idle"
    /\ UNCHANGED <<now, values, last_update, slock, val_by, stamp_by>>
    /\ UNCHANGED <<pargs, pstamp, ptodo, nupd>>
    /\ UNCHANGED <<sessVars, threadVars>>

\* a second passes with no update in it
ClockTick ==
    /\ now < MaxUpdates
    /\ now' = now + 1
    /\ UNCHANGED <<values, last_update, slock, wq, running, val_by, stamp_by>>
    /\ UNCHANGED <<prodVars, sessVars, threadVars>>

\* the wall clock is set back by a second (settimeofday, a step of the time
\* synchronisation): ktime_get_real_seconds() follows it
ClockSetBack ==
    /\ now > 1
    /\ now' = now - 1
    /\ UNCHANGED <<values, last_update, slock, wq, running, val_by, stamp_by>>
    /\ UNCHANGED <<prodVars, sessVars, threadVars>>

(***************************************************************************)
(* lunix_chrdev_open and lunix_chrdev_release.                             *)
(***************************************************************************)
InCall(t) == pc[t] # "idle"

\* variant: the type test of line 146 written with > instead of >=
ChrdevOpenOffByOne(s, minor) ==
    /\ ~opened[s]
    /\ open_minor' = [open_minor EXCEPT ![s] = minor]
    /\ IF minor % 8 > N_LUNIX_MSR
       THEN /\ open_ret' = [open_ret EXCEPT ![s] = "EINVAL"]
            /\ UNCHANGED <<opened, type, sensor, buf_lim, buf_data, buf_timestamp, lock, f_pos, cache_by>>
       ELSE /\ opened' = [opened EXCEPT ![s] = TRUE]
            /\ open_ret' = [open_ret EXCEPT ![s] = "0"]
            /\ type' = [type EXCEPT ![s] = minor % 8]
            /\ sensor' = [sensor EXCEPT ![s] = minor \div 8]
            /\ buf_lim' = [buf_lim EXCEPT ![s] = 0]
            /\ buf_timestamp' = [buf_timestamp EXCEPT ![s] = 0]
            /\ lock' = [lock EXCEPT ![s] = 1]
            /\ f_pos' = [f_pos EXCEPT ![s] = 0]
            /\ cache_by' = [cache_by EXCEPT ![s] = 0]
            /\ UNCHANGED buf_data
    /\ UNCHANGED <<sensorVars, prodVars, threadVars>>

\* variant: buf_timestamp set to the sensor's present stamp instead of 0
ChrdevOpenCurrentStamp(s, minor) ==
    /\ ~opened[s]
    /\ open_minor' = [open_minor EXCEPT ![s] = minor]
    /\ IF minor % 8 >= N_LUNIX_MSR
       THEN /\ open_ret' = [open_ret EXCEPT ![s] = "EINVAL"]
            /\ UNCHANGED <<opened, type, sensor, buf_lim, buf_data, buf_timestamp, lock, f_pos, cache_by>>
       ELSE /\ opened' = [opened EXCEPT ![s] = TRUE]
            /\ open_ret' = [open_ret EXCEPT ![s] = "0"]
            /\ type' = [type EXCEPT ![s] = minor % 8]
            /\ sensor' = [sensor EXCEPT ![s] = minor \div 8]
            /\ buf_lim' = [buf_lim EXCEPT ![s] = 0]
            /\ buf_timestamp' = [buf_timestamp EXCEPT ![s] = last_update[minor % 8]]
            /\ lock' = [lock EXCEPT ![s] = 1]
            /\ f_pos' = [f_pos EXCEPT ![s] = 0]
            /\ cache_by' = [cache_by EXCEPT ![s] = 0]
            /\ UNCHANGED buf_data
    /\ UNCHANGED <<sensorVars, prodVars, threadVars>>

\* open of the device node with minor number minor, into the free slot s
ChrdevOpen(s, minor) ==
    /\ ~opened[s]
    /\ open_minor' = [open_minor EXCEPT ![s] = minor]
    /\ IF minor % 8 >= N_LUNIX_MSR
       THEN /\ open_ret' = [open_ret EXCEPT ![s] = "EINVAL"]
            /\ UNCHANGED <<opened, type, sensor, buf_lim, buf_data, buf_timestamp, lock, f_pos, cache_by>>
       ELSE /\ opened' = [opened EXCEPT ![s] = TRUE]
            /\ open_ret' = [open_ret EXCEPT ![s] = "0"]
            /\ type' = [type EXCEPT ![s] = minor % 8]
            /\ sensor' = [sensor EXCEPT ![s] = minor \div 8]
            /\ buf_lim' = [buf_lim EXCEPT ![s] = 0]
            /\ buf_timestamp' = [buf_timestamp EXCEPT ![s] = 0]
            /\ lock' = [lock EXCEPT ![s] = 1]
            /\ f_pos' = [f_pos EXCEPT ![s] = 0]
            /\ cache_by' = [cache_by EXCEPT ![s] = 0]
            /\ UNCHANGED buf_data
    /\ UNCHANGED <<sensorVars, prodVars, threadVars>>

\* variant: the region registered for twice as many minors (<< 4 for << 3)
lunix_minor_cnt_shift4 == lunix_sensor_cnt * 16
\* lunix_chrdev_init: the number of minors the cdev is registered for
lunix_minor_cnt == lunix_sensor_cnt * 8

\* open(2) of a character device node with minor number minor: the kernel
\* calls lunix_chrdev_open when the minor lies in the region that
\* lunix_chrdev_init registered, and fails with -ENXIO (no such device)
\* without calling the driver when it does not
DeviceOpen(s, minor) ==
    IF minor < lunix_minor_cnt
    THEN ChrdevOpen(s, minor)
    ELSE /\ ~opened[s]
         /\ open_minor' = [open_minor EXCEPT ![s] = minor]
         /\ open_ret' = [open_ret EXCEPT ![s] = "ENXIO"]
         /\ UNCHANGED <<opened, type, sensor, buf_lim, buf_data, buf_timestamp, lock, f_pos, cache_by>>
         /\ UNCHANGED <<sensorVars, prodVars, threadVars>>

\* the last reference to the file is dropped: no read is running on it
ChrdevRelease(s) ==
    /\ opened[s]
    /\ \A t \in Threads : InCall(t) => rs[t] # s
    /\ opened' = [opened EXCEPT ![s] = FALSE]
    /\ open_ret' = [open_ret EXCEPT ![s] = "none"]
    /\ open_minor' = [open_minor EXCEPT ![s] = 0]
    /\ type' = [type EXCEPT ![s] = BATT]
    /\ sensor' = [sensor EXCEPT ![s] = 0]
    /\ buf_lim' = [buf_lim EXCEPT ![s] = 0]
    /\ buf_data' = [buf_data EXCEPT ![s] = <<>>]
    /\ buf_timestamp' = [buf_timestamp EXCEPT ![s] = 0]
    /\ lock' = [lock EXCEPT ![s] = 1]
    /\ f_pos' = [f_pos EXCEPT ![s] = 0]
    /\ cache_by' = [cache_by EXCEPT ![s] = 0]
    /\ UNCHANGED <<sensorVars, prodVars, threadVars>>

(***************************************************************************)
(* lunix_chrdev_state_needs_refresh.                                       *)
(***************************************************************************)
NeedsRefresh(s) == buf_timestamp[s] # last_update[type[s]]

(***************************************************************************)
(* lunix_chrdev_read, with lunix_chrdev_state_update inlined.              *)
(***************************************************************************)
\* what a thread keeps once its call has returned
Returned(t, how) ==
    /\ pc' = [pc EXCEPT ![t] = "idle"]
    /\ outcome' = [outcome EXCEPT ![t] = how]
    /\ rs' = [rs EXCEPT ![t] = NoSession]
    /\ cnt' = [cnt EXCEPT ![t] = 0]
    /\ ret' = [ret EXCEPT ![t] = 0]
    /\ raw_data' = [raw_data EXCEPT ![t] = 0]
    /\ l_last_update' = [l_last_update EXCEPT ![t] = 0]
    /\ snap_by' = [snap_by EXCEPT ![t] = <<0, 0>>]
    /\ delivered' = [delivered EXCEPT ![t] = <<>>]
    /\ pos0' = [pos0 EXCEPT ![t] = 0]

\* read(fd, usrbuf, n) enters the driver
ReadCall(t, s) ==
    /\ ~InCall(t)
    /\ opened[s]
    /\ pc' = [pc EXCEPT ![t] = "down"]
    /\ rs' = [rs EXCEPT ![t] = s]
    /\ outcome' = [outcome EXCEPT ![t] = "none"]
    /\ wrote' = [wrote EXCEPT ![t] = FALSE]
    /\ UNCHANGED <<cnt, ret, raw_data, l_last_update, snap_by, delivered, pos0, held>>
    /\ UNCHANGED <<sensorVars, prodVars, sessVars>>

\* variant: the loop of lines 225-235 left after the down of line 233, the
\* wake-up taken as proof that the cache is new
DownNoRecheck(t, here) ==
    /\ pc[t] = here
    /\ lock[rs[t]] > 0
    /\ lock' = [lock EXCEPT ![rs[t]] = @ - 1]
    /\ held' = [held EXCEPT ![t] = @ + 1]
    /\ pc' = [pc EXCEPT ![t] =
                 IF here = "redown" \/ f_pos[rs[t]] # 0 THEN "copy" ELSE "update"]
    /\ UNCHANGED <<rs, cnt, raw_data, l_last_update, snap_by, ret, outcome, delivered, pos0, wrote>>
    /\ UNCHANGED <<opened, open_ret, open_minor, type, sensor, buf_lim, buf_data, buf_timestamp, f_pos, cache_by>>
    /\ UNCHANGED <<sensorVars, prodVars>>

\* down_interruptible(&state->lock) succeeds; here is "down" (line 220, then
\* the test of *f_pos) or "redown" (line 233, back to the loop condition)
Down(t, here) ==
    /\ pc[t] = here
    /\ lock[rs[t]] > 0
    /\ lock' = [lock EXCEPT ![rs[t]] = @ - 1]
    /\ held' = [held EXCEPT ![t] = @ + 1]
    /\ pc' = [pc EXCEPT ![t] =
                 IF here = "down" /\ f_pos[rs[t]] # 0 THEN "copy" ELSE "update"]
    /\ UNCHANGED <<rs, cnt, raw_data, l_last_update, snap_by, ret, outcome, delivered, pos0, wrote>>
    /\ UNCHANGED <<opened, open_ret, open_minor, type, sensor, buf_lim, buf_data, buf_timestamp, f_pos, cache_by>>
    /\ UNCHANGED <<sensorVars, prodVars>>

\* down_interruptible has to sleep and a signal arrives: -ERESTARTSYS
DownInterrupted(t, here) ==
    /\ pc[t] = here
    /\ lock[rs[t]] = 0
    /\ Returned(t, "ERESTARTSYS")
    /\ UNCHANGED <<held, wrote>>
    /\ UNCHANGED <<sensorVars, prodVars, sessVars>>

\* variant: lunix_chrdev_state_update without the test of lines 80-81
StateUpdateCheckNoTest(t) ==
    /\ pc[t] = "update"
    /\ pc' = [pc EXCEPT ![t] = "spin"]
    /\ UNCHANGED <<lock, held>>
    /\ UNCHANGED <<rs, cnt, raw_data, l_last_update, snap_by, ret, outcome, delivered, pos0, wrote>>
    /\ UNCHANGED <<opened, open_ret, open_minor, type, sensor, buf_lim, buf_data, buf_timestamp, f_pos, cache_by>>
    /\ UNCHANGED <<sensorVars, prodVars>>

\* variant: read without the up(&state->lock) of line 227
StateUpdateCheckKeepsLock(t) ==
    /\ pc[t] = "update"
    /\ pc' = [pc EXCEPT ![t] = IF NeedsRefresh(rs[t]) THEN "spin" ELSE "wait"]
    /\ UNCHANGED <<lock, held>>
    /\ UNCHANGED <<rs, cnt, raw_data, l_last_update, snap_by, ret, outcome, delivered, pos0, wrote>>
    /\ UNCHANGED <<opened, open_ret, open_minor, type, sensor, buf_lim, buf_data, buf_timestamp, f_pos, cache_by>>
    /\ UNCHANGED <<sensorVars, prodVars>>

\* variant: the -EAGAIN path empties the cache (buf_lim = 0) before it waits
StateUpdateCheckDropsCache(t) ==
    /\ pc[t] = "update"
    /\ IF NeedsRefresh(rs[t])
       THEN /\ pc' = [pc EXCEPT ![t] = "spin"]
            /\ UNCHANGED <<lock, held, buf_lim>>
       ELSE /\ buf_lim' = [buf_lim EXCEPT ![rs[t]] = 0]
            /\ lock' = [lock EXCEPT ![rs[t]] = @ + 1]
            /\ held' = [held EXCEPT ![t] = @ - 1]
            /\ pc' = [pc EXCEPT ![t] = "wait"]
    /\ UNCHANGED <<rs, cnt, raw_data, l_last_update, snap_by, ret, outcome, delivered, pos0>>
    /\ UNCHANGED <<opened, open_ret, open_minor, type, sensor, buf_data, buf_timestamp, f_pos, cache_by>>
    /\ UNCHANGED <<sensorVars, prodVars>>
    /\ wrote' = [wrote EXCEPT ![t] = @ \/ SessChanged(rs[t])]

\* variant: without new data read serves the text it has cached, when it
\* has one, instead of waiting
StateUpdateCheckServesCache(t) ==
    /\ pc[t] = "update"
    /\ IF NeedsRefresh(rs[t])
       THEN /\ pc' = [pc EXCEPT ![t] = "spin"]
            /\ UNCHANGED <<lock, held>>
       ELSE IF buf_lim[rs[t]] > 0
       THEN /\ pc' = [pc EXCEPT ![t] = "copy"]
            /\ UNCHANGED <<lock, held>>
       ELSE /\ lock' = [lock EXCEPT ![rs[t]] = @ + 1]
            /\ held' = [held EXCEPT ![t] = @ - 1]
            /\ pc' = [pc EXCEPT ![t] = "wait"]
    /\ UNCHANGED <<rs, cnt, raw_data, l_last_update, snap_by, ret, outcome, delivered, pos0, wrote>>
    /\ UNCHANGED <<opened, open_ret, open_minor, type, sensor, buf_lim, buf_data, buf_timestamp, f_pos, cache_by>>
    /\ UNCHANGED <<sensorVars, prodVars>>

\* lunix_chrdev_state_update begins: without new data it returns -EAGAIN and
\* read does up(&state->lock) before it waits
StateUpdateCheck(t) ==
    /\ pc[t] = "update"
    /\ IF NeedsRefresh(rs[t])
       THEN /\ pc' = [pc EXCEPT ![t] = "spin"]
            /\ UNCHANGED <<lock, held>>
       ELSE /\ lock' = [lock EXCEPT ![rs[t]] = @ + 1]
            /\ held' = [held EXCEPT ![t] = @ - 1]
            /\ pc' = [pc EXCEPT ![t] = "wait"]
    /\ UNCHANGED <<rs, cnt, raw_data, l_last_update, snap_by, ret, outcome, delivered, pos0, wrote>>
    /\ UNCHANGED <<opened, open_ret, open_minor, type, sensor, buf_lim, buf_data, buf_timestamp, f_pos, cache_by>>
    /\ UNCHANGED <<sensorVars, prodVars>>

\* variant: the reads of lines 88-89 made without waiting for sensor->lock
SpinLockIrqNoWait(t) ==
    /\ pc[t] = "spin"
    /\ slock' = slock
    /\ pc' = [pc EXCEPT ![t] = "locked"]
    /\ UNCHANGED <<now, values, last_update, wq, running, val_by, stamp_by>>
    /\ UNCHANGED <<rs, cnt, raw_data, l_last_update, snap_by, ret, outcome, delivered, pos0, held, wrote>>
    /\ UNCHANGED <<prodVars, sessVars>>

\* spin_lock_irq(&sensor->lock)
SpinLockIrq(t) ==
    /\ pc[t] = "spin"
    /\ slock = "free"
    /\ slock' = t
    /\ pc' = [pc EXCEPT ![t] = "locked"]
    /\ UNCHANGED <<now, values, last_update, wq, running, val_by, stamp_by>>
    /\ UNCHANGED <<rs, cnt, raw_data, l_last_update, snap_by, ret, outcome, delivered, pos0, held, wrote>>
    /\ UNCHANGED <<prodVars, sessVars>>

\* variant: the critical section left without spin_unlock_irq
ReadUnderLockKeepsLock(t) ==
    /\ pc[t] = "locked"
    /\ raw_data' = [raw_data EXCEPT ![t] = values[type[rs[t]]]]
    /\ l_last_update' = [l_last_update EXCEPT ![t] = last_update[type[rs[t]]]]
    /\ snap_by' = [snap_by EXCEPT ![t] = <<val_by[type[rs[t]]], stamp_by[type[rs[t]]]>>]
    /\ pc' = [pc EXCEPT ![t] = "store"]
    /\ UNCHANGED <<now, values, last_update, slock, wq, running, val_by, stamp_by>>
    /\ UNCHANGED <<rs, cnt, ret, outcome, delivered, pos0, held, wrote>>
    /\ UNCHANGED <<prodVars, sessVars>>

\* raw_data = ...->values[0]; last_update = ...->last_update;
\* spin_unlock_irq(&sensor->lock)
ReadUnderLock(t) ==
    /\ pc[t] = "locked"
    /\ raw_data' = [raw_data EXCEPT ![t] = values[type[rs[t]]]]
    /\ l_last_update' = [l_last_update EXCEPT ![t] = last_update[type[rs[t]]]]
    /\ snap_by' = [snap_by EXCEPT ![t] = <<val_by[type[rs[t]]], stamp_by[type[rs[t]]]>>]
    /\ slock' = "free"
    /\ pc' = [pc EXCEPT ![t] = "store"]
    /\ UNCHANGED <<now, values, last_update, wq, running, val_by, stamp_by>>
    /\ UNCHANGED <<rs, cnt, ret, outcome, delivered, pos0, held, wrote>>
    /\ UNCHANGED <<prodVars, sessVars>>

\* variant: lunix_chrdev_state_update without the store of line 96
StateUpdateStoreNoStamp(t) ==
    /\ pc[t] = "store"
    /\ cache_by' = [cache_by EXCEPT ![rs[t]] = snap_by[t][2]]
    /\ IF type[rs[t]] \in Kinds
       THEN LET text == FormatValue(Convert(type[rs[t]], raw_data[t]))
            IN  /\ buf_data' = [buf_data EXCEPT ![rs[t]] =
                                   SnprintfStored(text, LUNIX_CHRDEV_BUFSZ)]
                /\ buf_lim' = [buf_lim EXCEPT ![rs[t]] = SnprintfRet(text)]
       ELSE UNCHANGED <<buf_data, buf_lim>>
    /\ pc' = [pc EXCEPT ![t] = "copy"]
    /\ UNCHANGED <<rs, cnt, raw_data, l_last_update, snap_by, ret, outcome, delivered, pos0, held>>
    /\ UNCHANGED <<opened, open_ret, open_minor, type, sensor, lock, f_pos, buf_timestamp>>
    /\ UNCHANGED <<sensorVars, prodVars>>
    /\ wrote' = [wrote EXCEPT ![t] = @ \/ SessChanged(rs[t])]

\* variant: the timestamp of line 96 kept once per device node, stored into
\* every open file of the node instead of the caller's own
StateUpdateStoreShared(t) ==
    /\ pc[t] = "store"
    /\ buf_timestamp' = [s \in Sessions |->
                            IF opened[s] /\ type[s] = type[rs[t]] /\ sensor[s] = sensor[rs[t]]
                            THEN l_last_update[t] ELSE buf_timestamp[s]]
    /\ cache_by' = [cache_by EXCEPT ![rs[t]] = snap_by[t][2]]
    /\ IF type[rs[t]] \in Kinds
       THEN LET text == FormatValue(Convert(type[rs[t]], raw_data[t]))
            IN  /\ buf_data' = [buf_data EXCEPT ![rs[t]] =
                                   SnprintfStored(text, LUNIX_CHRDEV_BUFSZ)]
                /\ buf_lim' = [buf_lim EXCEPT ![rs[t]] = SnprintfRet(text)]
       ELSE UNCHANGED <<buf_data, buf_lim>>
    /\ pc' = [pc EXCEPT ![t] = "copy"]
    /\ UNCHANGED <<rs, cnt, raw_data, l_last_update, snap_by, ret, outcome, delivered, pos0, held>>
    /\ UNCHANGED <<opened, open_ret, open_minor, type, sensor, lock, f_pos>>
    /\ UNCHANGED <<sensorVars, prodVars>>
    /\ wrote' = [wrote EXCEPT ![t] = @ \/ SessChanged(rs[t])]

\* state->buf_timestamp = last_update, the table lookup and snprintf; the
\* default branch of the switch returns -EINVAL, which ends the loop of read
StateUpdateStore(t) ==
    /\ pc[t] = "store"
    /\ buf_timestamp' = [buf_timestamp EXCEPT ![rs[t]] = l_last_update[t]]
    /\ cache_by' = [cache_by EXCEPT ![rs[t]] = snap_by[t][2]]
    /\ IF type[rs[t]] \in Kinds
       THEN LET text == FormatValue(Convert(type[rs[t]], raw_data[t]))
            IN  /\ buf_data' = [buf_data EXCEPT ![rs[t]] =
                                   SnprintfStored(text, LUNIX_CHRDEV_BUFSZ)]
                /\ buf_lim' = [buf_lim EXCEPT ![rs[t]] = SnprintfRet(text)]
       ELSE UNCHANGED <<buf_data, buf_lim>>
    /\ pc' = [pc EXCEPT ![t] = "copy"]
    /\ UNCHANGED <<rs, cnt, raw_data, l_last_update, snap_by, ret, outcome, delivered, pos0, held>>
    /\ UNCHANGED <<opened, open_ret, open_minor, type, sensor, lock, f_pos>>
    /\ UNCHANGED <<sensorVars, prodVars>>
    /\ wrote' = [wrote EXCEPT ![t] = @ \/ SessChanged(rs[t])]

\* wait_event_interruptible: the condition is tested before anything else
WaitFirst(t) ==
    /\ pc[t] = "wait"
    /\ pc' = [pc EXCEPT ![t] = IF NeedsRefresh(rs[t]) THEN "redown" ELSE "w_prep"]
    /\ UNCHANGED <<rs, cnt, raw_data, l_last_update, snap_by, ret, outcome, delivered, pos0, held, wrote>>
    /\ UNCHANGED <<sensorVars, prodVars, sessVars>>

\* prepare_to_wait_event: queue on sensor->wq, become TASK_INTERRUPTIBLE
WaitPrepare(t) ==
    /\ pc[t] = "w_prep"
    /\ wq' = wq \cup {t}
    /\ running' = [running EXCEPT ![t] = FALSE]
    /\ pc' = [pc EXCEPT ![t] = "w_cond"]
    /\ UNCHANGED <<now, values, last_update, slock, val_by, stamp_by>>
    /\ UNCHANGED <<rs, cnt, raw_data, l_last_update, snap_by, ret, outcome, delivered, pos0, held, wrote>>
    /\ UNCHANGED <<prodVars, sessVars>>

\* the condition is tested again once queued; finish_wait when it holds
WaitCond(t) ==
    /\ pc[t] = "w_cond"
    /\ IF NeedsRefresh(rs[t])
       THEN /\ wq' = wq \ {t}
            /\ running' = [running EXCEPT ![t] = TRUE]
            /\ pc' = [pc EXCEPT ![t] = "redown"]
       ELSE /\ pc' = [pc EXCEPT ![t] = "w_sched"]
            /\ UNCHANGED <<wq, running>>
    /\ UNCHANGED <<now, values, last_update, slock, val_by, stamp_by>>
    /\ UNCHANGED <<rs, cnt, raw_data, l_last_update, snap_by, ret, outcome, delivered, pos0, held, wrote>>
    /\ UNCHANGED <<prodVars, sessVars>>

\* schedule() returns once the task has been made runnable
WaitSchedule(t) ==
    /\ pc[t] = "w_sched"
    /\ running[t]
    /\ pc' = [pc EXCEPT ![t] = "w_prep"]
    /\ UNCHANGED <<rs, cnt, raw_data, l_last_update, snap_by, ret, outcome, delivered, pos0, held, wrote>>
    /\ UNCHANGED <<sensorVars, prodVars, sessVars>>

\* variant: the interrupted wait leaves through out:, with the up of line 266
WaitInterruptedUp(t) ==
    /\ pc[t] \in {"w_prep", "w_sched"}
    /\ wq' = wq \ {t}
    /\ running' = [running EXCEPT ![t] = TRUE]
    /\ lock' = [lock EXCEPT ![rs[t]] = @ + 1]
    /\ Returned(t, "ERESTARTSYS")
    /\ UNCHANGED <<held, wrote>>
    /\ UNCHANGED <<now, values, last_update, slock, val_by, stamp_by>>
    /\ UNCHANGED <<opened, open_ret, open_minor, type, sensor, buf_lim, buf_data, buf_timestamp, f_pos, cache_by>>
    /\ UNCHANGED prodVars

\* a signal is pending in prepare_to_wait_event, or wakes the sleeping task
\* which then finds it there: the wait returns -ERESTARTSYS
WaitInterrupted(t) ==
    /\ pc[t] \in {"w_prep", "w_sched"}
    /\ wq' = wq \ {t}
    /\ running' = [running EXCEPT ![t] = TRUE]
    /\ Returned(t, "ERESTARTSYS")
    /\ UNCHANGED <<held, wrote>>
    /\ UNCHANGED <<now, values, last_update, slock, val_by, stamp_by>>
    /\ UNCHANGED <<prodVars, sessVars>>

\* lines 238-259: the byte count, end of file, copy_to_user, *f_pos += cnt.
\* n is the cnt argument of the call; fault says that copy_to_user finds
\* usrbuf not writable
Available(s) == Max(0, buf_lim[s] - f_pos[s])
\* variant: available_bytes computed one short
DeliverableOneShort(s, n) == Min(n, Max(0, buf_lim[s] - f_pos[s] - 1))
Deliverable(s, n) == Min(n, Available(s))

CopyToUser(t, n, fault) ==
    /\ pc[t] = "copy"
    /\ cnt' = [cnt EXCEPT ![t] = n]
    /\ pos0' = [pos0 EXCEPT ![t] = f_pos[rs[t]]]
    /\ LET s == rs[t]
           d == Deliverable(s, n)
       IN  IF d = 0
           THEN /\ ret' = [ret EXCEPT ![t] = 0]
                /\ outcome' = [outcome EXCEPT ![t] = "eof"]
                /\ pc' = [pc EXCEPT ![t] = "out"]
                /\ UNCHANGED <<delivered, f_pos>>
           ELSE IF fault
           THEN /\ outcome' = [outcome EXCEPT ![t] = "EFAULT"]
                /\ pc' = [pc EXCEPT ![t] = "out"]
                /\ UNCHANGED <<ret, delivered, f_pos>>
           ELSE /\ delivered' = [delivered EXCEPT ![t] =
                                    SubSeq(buf_data[s], f_pos[s] + 1, f_pos[s] + d)]
                /\ f_pos' = [f_pos EXCEPT ![s] = @ + d]
                /\ ret' = [ret EXCEPT ![t] = d]
                /\ outcome' = [outcome EXCEPT ![t] = "bytes"]
                /\ pc' = [pc EXCEPT ![t] = "rewind"]
    /\ UNCHANGED <<rs, raw_data, l_last_update, snap_by, held>>
    /\ UNCHANGED <<opened, open_ret, open_minor, type, sensor, buf_lim, buf_data, buf_timestamp, lock, cache_by>>
    /\ UNCHANGED <<sensorVars, prodVars>>
    /\ wrote' = [wrote EXCEPT ![t] = @ \/ SessChanged(rs[t])]

\* lines 261-263: auto-rewind on EOF
Rewind(t) ==
    /\ pc[t] = "rewind"
    /\ f_pos' = [f_pos EXCEPT ![rs[t]] = IF @ >= buf_lim[rs[t]] THEN 0 ELSE @]
    /\ pc' = [pc EXCEPT ![t] = "out"]
    /\ UNCHANGED <<rs, cnt, raw_data, l_last_update, snap_by, ret, outcome, delivered, pos0, held>>
    /\ UNCHANGED <<opened, open_ret, open_minor, type, sensor, buf_lim, buf_data, buf_timestamp, lock, cache_by>>
    /\ UNCHANGED <<sensorVars, prodVars>>
    /\ wrote' = [wrote EXCEPT ![t] = @ \/ SessChanged(rs[t])]

\* variant: read returns from out: without the up(&state->lock) of line 266
UpReturnNoUp(t) ==
    /\ pc[t] = "out"
    /\ held' = [held EXCEPT ![t] = @ - 1]
    /\ Returned(t, outcome[t])
    /\ UNCHANGED <<wrote, lock>>
    /\ UNCHANGED <<opened, open_ret, open_minor, type, sensor, buf_lim, buf_data, buf_timestamp, f_pos, cache_by>>
    /\ UNCHANGED <<sensorVars, prodVars>>

\* out: up(&state->lock); return ret
UpReturn(t) ==
    /\ pc[t] = "out"
    /\ lock' = [lock EXCEPT ![rs[t]] = @ + 1]
    /\ held' = [held EXCEPT ![t] = @ - 1]
    /\ Returned(t, outcome[t])
    /\ UNCHANGED wrote
    /\ UNCHANGED <<opened, open_ret, open_minor, type, sensor, buf_lim, buf_data, buf_timestamp, f_pos, cache_by>>
    /\ UNCHANGED <<sensorVars, prodVars>>

(***************************************************************************)
(* The system.                                                             *)
(***************************************************************************)
Producer ==
    \/ \E frame \in Frames : SensorUpdateCall(frame)
    \/ SensorUpdateLock
    \/ \E tm \in {Max(now, 1), now + 1} : SensorUpdateValues(tm)
    \/ \E k \in Kinds : SensorUpdateStamp(k)
    \/ SensorUpdateUnlock
    \/ SensorUpdateWake

Reader(t, files) ==
    \/ \E s \in files : ReadCall(t, s)
    \/ Down(t, "down")
    \/ Down(t, "redown")
    \/ DownInterrupted(t, "down")
    \/ DownInterrupted(t, "redown")
    \/ StateUpdateCheck(t)
    \/ SpinLockIrq(t)
    \/ ReadUnderLock(t)
    \/ StateUpdateStore(t)
    \/ WaitFirst(t)
    \/ WaitPrepare(t)
    \/ WaitCond(t)
    \/ WaitSchedule(t)
    \/ WaitInterrupted(t)
    \/ \E n \in CntVals, fault \in BOOLEAN : CopyToUser(t, n, fault)
    \/ Rewind(t)
    \/ UpReturn(t)

\* one open file at a time, shared by all the threads
Next ==
    /\ UNCHANGED <<protoVars, renderVars>>
    /\ \/ Producer
       \/ \E m \in Minors : ChrdevOpen("s1", m)
       \/ ChrdevRelease("s1")
       \/ \E t \in Threads : Reader(t, {"s1"})

Spec == Init /\ [][Next]_vars

(***************************************************************************)
(* Scheduling.  A runnable thread is eventually run.  The semaphore hands  *)
(* the lock to its waiters in FIFO order and the spinlock is a queued      *)
(* lock, so a waiter for either gets it if it is released again and again: *)
(* a thread whose next step is possible again and again takes it (SF).     *)
(* New calls of read, new updates, open, release and signals are the       *)
(* environment's choice: nothing forces them.                              *)
(***************************************************************************)
ReaderRun(t) ==
    \/ StateUpdateCheck(t)
    \/ ReadUnderLock(t)
    \/ StateUpdateStore(t)
    \/ WaitFirst(t)
    \/ WaitPrepare(t)
    \/ WaitCond(t)
    \/ WaitSchedule(t)
    \/ \E n \in CntVals, fault \in BOOLEAN : CopyToUser(t, n, fault)
    \/ Rewind(t)
    \/ UpReturn(t)

ReaderDown(t) == Down(t, "down") \/ Down(t, "redown")

ProducerRun ==
    \/ \E tm \in {Max(now, 1), now + 1} : SensorUpdateValues(tm)
    \/ \E k \in Kinds : SensorUpdateStamp(k)
    \/ SensorUpdateUnlock
    \/ SensorUpdateWake

ReaderStep(t) == ReaderRun(t) \/ ReaderDown(t) \/ SpinLockIrq(t)
ProducerStep == ProducerRun \/ SensorUpdateLock

Fairness ==
    /\ \A t \in Threads : SF_vars(ReaderStep(t))
    /\ SF_vars(ProducerStep)

\* one open file of minor 1 (sensor 0, kind TEMP) shared by all the threads,
\* the producer delivering the same frame each time: what the locks and the
\* wait queue do does not depend on the values carried
NextFair ==
    /\ UNCHANGED <<protoVars, renderVars>>
    /\ \/ SensorUpdateCall(<<512, 512, 512>>)
       \/ ProducerStep
       \/ ChrdevOpen("s1", 1)
       \/ ChrdevRelease("s1")
       \/ \E t \in Threads : Reader(t, {"s1"})

SpecFair == Init /\ [][NextFair]_vars /\ Fairness

\* the same open file and threads with nothing assumed of the scheduling
SpecSession == Init /\ [][NextFair]_vars

\* two open files of the same device node (sensor 0, kind TEMP), each read
\* by its own thread; the sole user of a file never finds its semaphore
\* taken, so down_interruptible never sleeps and is never interrupted
NextPair ==
    /\ UNCHANGED <<protoVars, renderVars>>
    /\ \/ Producer
       \/ ChrdevOpen("s1", 1)
       \/ ChrdevOpen("s2", 1)
       \/ \E own \in {<<"t1", "s1">>, <<"t2", "s2">>} :
              \/ ReadCall(own[1], own[2])
              \/ ReaderStep(own[1])
              \/ WaitInterrupted(own[1])

SpecPair == Init /\ [][NextPair]_vars /\ Fairness

\* two open files of the same device node (sensor 0, kind TEMP), opened and
\* closed at will, each read by its own thread while the sensor is updated
\* with one frame
NextShared ==
    /\ UNCHANGED <<protoVars, renderVars>>
    /\ \/ SensorUpdateCall(<<512, 512, 512>>)
       \/ ProducerStep
       \/ \E s \in Sessions : ChrdevOpen(s, 1)
       \/ \E s \in Sessions : ChrdevRelease(s)
       \/ \E own \in {<<"t1", "s1">>, <<"t2", "s2">>} :
              \/ ReadCall(own[1], own[2])
              \/ ReaderStep(own[1])
              \/ WaitInterrupted(own[1])

SpecShared == Init /\ [][NextShared]_vars

\* device nodes of every kind opened into both slots, valid or not; thread
\* t1 reads the open files that are on sensor 0, the sensor whose buffers
\* the module carries
NextOpen ==
    /\ UNCHANGED <<protoVars, renderVars>>
    /\ \/ SensorUpdateCall(<<512, 512, 512>>)
       \/ ProducerStep
       \/ \E s \in Sessions, m \in OpenMinors : DeviceOpen(s, m)
       \/ \E s \in Sessions : ChrdevRelease(s)
       \/ \E s \in {f \in Sessions : sensor[f] = 0} : ReadCall("t1", s)
       \/ ReaderStep("t1")
       \/ WaitInterrupted("t1")

SpecOpen == Init /\ [][NextOpen]_vars

\* the sensor is updated while the wall clock may be set back; one thread
\* reads one open file of kind TEMP
NextClock ==
    /\ UNCHANGED <<protoVars, renderVars>>
    /\ \/ Producer
       \/ ClockTick
       \/ ClockSetBack
       \/ ChrdevOpen("s1", 1)
       \/ ReadCall("t1", "s1")
       \/ ReaderStep("t1")
       \/ WaitInterrupted("t1")

SpecClock == Init /\ [][NextClock]_vars

TypeOK ==
    /\ now \in 0 .. MaxUpdates
    /\ \A k \in Kinds : last_update[k] <= now
    /\ \A s \in Sessions : lock[s] \in {0, 1} /\ f_pos[s] >= 0
    /\ \A t \in Threads : held[t] \in {0, 1}

(***************************************************************************)
(* lunix-protocol.c: the parser of the packets the line delivers.          *)
(***************************************************************************)
MAX_PACKET_LEN == 300
PACKET_SIGNATURE_OFFSET == 4
NODE_OFFSET == 9
VREF_OFFSET == 18
TEMPERATURE_OFFSET == 20
LIGHT_OFFSET == 22
\* 0x7E, start and end of a packet; 0x7D, the escape character; 0x0B, the
\* signature of a packet of measurements; 0x20, the bit an escape flips
FLAG_BYTE == 126
ESCAPE_BYTE == 125
SENSOR_SIGNATURE == 11
ESCAPE_BIT == 32

\* the stages between the start byte and the end byte, in order
FieldStages ==
    <<"SEEKING_PACKET_TYPE", "SEEKING_DESTINATION_ADDRESS", "SEEKING_AM_TYPE",
      "SEEKING_AM_GROUP", "SEEKING_PAYLOAD_LENGTH", "SEEKING_PAYLOAD",
      "SEEKING_CRC">>
Stages == <<"SEEKING_START_BYTE">> \o FieldStages \o <<"SEEKING_END_BYTE">>
StageSet == {Stages[k] : k \in 1 .. Len(Stages)}
FieldStageSet == {FieldStages[k] : k \in 1 .. Len(FieldStages)}

\* the stages whose bytes the parser is said to read "handling special
\* characters"
DocSpecialStages ==
    {"SEEKING_DESTINATION_ADDRESS", "SEEKING_AM_TYPE", "SEEKING_PAYLOAD"}
\* the other fields between the start byte and the end byte, which are
\* byte-stuffed as well
OtherSpecialStages ==
    {"SEEKING_PACKET_TYPE", "SEEKING_AM_GROUP", "SEEKING_PAYLOAD_LENGTH",
     "SEEKING_CRC"}
\* the use_specials argument with which a stage calls the parsing function
use_specials(stage) == stage \in DocSpecialStages \cup OtherSpecialStages

\* packet[k], k counted from 0; the array starts zeroed
PacketByte(packet, k) == IF k < Len(packet) THEN packet[k + 1] ELSE 0
\* little-endian 16-bit value at packet[off], packet[off + 1]
uint16_from_packet(packet, off) ==
    PacketByte(packet, off) + 256 * PacketByte(packet, off + 1)

\* the byte with bit 0x20 flipped
FlipEscapeBit(b) ==
    IF (b \div ESCAPE_BIT) % 2 = 1 THEN b - ESCAPE_BIT ELSE b + ESCAPE_BIT

set_state(st, state, btr, br) ==
    [st EXCEPT !.state = state, !.bytes_to_read = btr, !.bytes_read = br]

lunix_protocol_init(st) ==
    set_state([st EXCEPT !.pos = 0, !.next_is_special = 0],
              "SEEKING_START_BYTE", 1, 0)

\* state->packet[state->pos++] = b, counted as a byte of the stage
StoreByte(st, b) ==
    [st EXCEPT !.packet = IF st.pos < Len(@)
                          THEN [@ EXCEPT ![st.pos + 1] = b]
                          ELSE Append(@, b),
               !.pos = @ + 1,
               !.bytes_read = @ + 1]

\* variant: the byte after the escape character is stored as it came
StoreEscapedRaw(st, b) ==
    [StoreByte(st, b) EXCEPT !.next_is_special = 0]

\* the byte after the escape character: unescaped, stored, the flag cleared
StoreEscaped(st, b) ==
    [StoreByte(st, FlipEscapeBit(b)) EXCEPT !.next_is_special = 0]

\* lunix_sensor_update as the parser sees it, one call from start to end:
\* the three values, the stamp, one wake-up of the queue
SensorUpdated(s, batt, temp, light, tm) ==
    [values |-> <<batt, temp, light>>, last_update |-> tm,
     wakeups |-> s.wakeups + 1]

\* what lunix_protocol_update_sensors reads from the packet
Extracted(packet) ==
    [sig |-> PacketByte(packet, PACKET_SIGNATURE_OFFSET),
     nodeid |-> uint16_from_packet(packet, NODE_OFFSET),
     batt |-> uint16_from_packet(packet, VREF_OFFSET),
     temp |-> uint16_from_packet(packet, TEMPERATURE_OFFSET),
     light |-> uint16_from_packet(packet, LIGHT_OFFSET)]

\* variant: the signature byte is not tested
update_sensors_any_signature(packet, sensors, tm) ==
    LET x == Extracted(packet)
    IN  IF x.nodeid \in 1 .. lunix_sensor_cnt
        THEN [sensors EXCEPT ![x.nodeid - 1] =
                  SensorUpdated(@, x.batt, x.temp, x.light, tm)]
        ELSE sensors

\* variant: the sensor is indexed by the node id itself
update_sensors_no_bias(packet, sensors, tm) ==
    LET x == Extracted(packet)
    IN  IF x.sig # SENSOR_SIGNATURE THEN sensors
        ELSE IF x.nodeid \in 0 .. lunix_sensor_cnt - 1
        THEN [sensors EXCEPT ![x.nodeid] =
                  SensorUpdated(@, x.batt, x.temp, x.light, tm)]
        ELSE sensors

\* lunix_protocol_update_sensors(state, lunix_sensors): the registry after it
lunix_protocol_update_sensors(packet, sensors, tm) ==
    LET x == Extracted(packet)
    IN  IF x.sig # SENSOR_SIGNATURE THEN sensors
        ELSE IF x.nodeid \in 1 .. lunix_sensor_cnt
        THEN [sensors EXCEPT ![x.nodeid - 1] =
                  SensorUpdated(@, x.batt, x.temp, x.light, tm)]
        ELSE sensors

\* lunix_protocol_parse_state(state, data, length, &i, use_specials): the
\* loop runs while there is data and the stage wants bytes.  i counts from 0.
\* The result is the state, the index and the return value.
RECURSIVE lunix_protocol_parse_state(_, _, _, _)
lunix_protocol_parse_state(st, data, i, specials) ==
    IF i >= Len(data) \/ st.bytes_read >= st.bytes_to_read
    THEN [st |-> st, i |-> i,
          ret |-> IF st.bytes_read >= st.bytes_to_read THEN 1 ELSE 0]
    ELSE IF st.pos = MAX_PACKET_LEN
    THEN \* no room left: the packet is dropped
         [st |-> lunix_protocol_init(st), i |-> i + 1, ret |-> 1]
    ELSE LET b == data[i + 1]
         IN  IF specials /\ st.next_is_special = 1
             THEN lunix_protocol_parse_state(StoreEscaped(st, b), data, i + 1, specials)
             ELSE IF specials /\ b = ESCAPE_BYTE
             THEN lunix_protocol_parse_state(
                      [st EXCEPT !.next_is_special = 1], data, i + 1, specials)
             ELSE IF specials /\ b = FLAG_BYTE
             THEN \* a packet boundary inside a field: the packet so far is
                  \* dropped and the byte starts the next one
                  [st |-> set_state(StoreByte(lunix_protocol_init(st), b),
                                    "SEEKING_PACKET_TYPE", 1, 0),
                   i |-> i + 1, ret |-> 0]
             ELSE lunix_protocol_parse_state(StoreByte(st, b), data, i + 1, specials)

\* variant: the payload is taken to be of 17 bytes whatever the length read
AfterFieldFixedPayload(st) ==
    CASE st.state = "SEEKING_PACKET_TYPE" ->
             set_state(st, "SEEKING_DESTINATION_ADDRESS", 2, 0)
      [] st.state = "SEEKING_DESTINATION_ADDRESS" ->
             set_state(st, "SEEKING_AM_TYPE", 1, 0)
      [] st.state = "SEEKING_AM_TYPE" ->
             set_state(st, "SEEKING_AM_GROUP", 1, 0)
      [] st.state = "SEEKING_AM_GROUP" ->
             set_state(st, "SEEKING_PAYLOAD_LENGTH", 1, 0)
      [] st.state = "SEEKING_PAYLOAD_LENGTH" ->
             set_state([st EXCEPT !.payload_length = 17], "SEEKING_PAYLOAD", 17, 0)
      [] st.state = "SEEKING_PAYLOAD" ->
             set_state(st, "SEEKING_CRC", 2, 0)
      [] st.state = "SEEKING_CRC" ->
             set_state(st, "SEEKING_END_BYTE", 1, 0)

\* the stage that follows a field, and the bytes it reads
AfterField(st) ==
    CASE st.state = "SEEKING_PACKET_TYPE" ->
             set_state(st, "SEEKING_DESTINATION_ADDRESS", 2, 0)
      [] st.state = "SEEKING_DESTINATION_ADDRESS" ->
             set_state(st, "SEEKING_AM_TYPE", 1, 0)
      [] st.state = "SEEKING_AM_TYPE" ->
             set_state(st, "SEEKING_AM_GROUP", 1, 0)
      [] st.state = "SEEKING_AM_GROUP" ->
             set_state(st, "SEEKING_PAYLOAD_LENGTH", 1, 0)
      [] st.state = "SEEKING_PAYLOAD_LENGTH" ->
             LET len == PacketByte(st.packet, st.pos - 1)
             IN  set_state([st EXCEPT !.payload_length = len],
                           "SEEKING_PAYLOAD", len, 0)
      [] st.state = "SEEKING_PAYLOAD" ->
             set_state(st, "SEEKING_CRC", 2, 0)
      [] st.state = "SEEKING_CRC" ->
             set_state(st, "SEEKING_END_BYTE", 1, 0)

\* variant: the end byte found, the stage is set back but not the position
EndByteReadKeepsPos(c, st, tm) ==
    IF PacketByte(st.packet, st.pos - 1) = FLAG_BYTE
    THEN [st |-> set_state(st, "SEEKING_START_BYTE", 1, 0),
          sensors |-> lunix_protocol_update_sensors(st.packet, c.sensors, tm),
          applied |-> Append(c.applied, Extracted(st.packet))]
    ELSE [c EXCEPT !.st = lunix_protocol_init(st)]

\* SEEKING_END_BYTE has read its byte into st: when it is the end byte the
\* packet is handed to lunix_protocol_update_sensors; the state machine is
\* reset for the next packet
EndByteRead(c, st, tm) ==
    IF PacketByte(st.packet, st.pos - 1) = FLAG_BYTE
    THEN [st |-> lunix_protocol_init(st),
          sensors |-> lunix_protocol_update_sensors(st.packet, c.sensors, tm),
          applied |-> Append(c.applied, Extracted(st.packet))]
    ELSE [c EXCEPT !.st = lunix_protocol_init(st)]

\* variant: a byte that is not the start byte stays in the packet
StartByteReadKeepsByte(st) ==
    IF PacketByte(st.packet, st.pos - 1) = FLAG_BYTE
    THEN set_state(st, "SEEKING_PACKET_TYPE", 1, 0)
    ELSE set_state(st, "SEEKING_START_BYTE", 1, 0)

\* SEEKING_START_BYTE has read its byte into st: the start byte begins a
\* packet, any other byte is dropped and the search goes on
StartByteRead(st) ==
    IF PacketByte(st.packet, st.pos - 1) = FLAG_BYTE
    THEN set_state(st, "SEEKING_PACKET_TYPE", 1, 0)
    ELSE lunix_protocol_init(st)

\* lunix_protocol_received_buf(state, buf, length) from index i on.  c holds
\* the parser state, the registry and the record of the packets handed over.
RECURSIVE lunix_protocol_received_buf(_, _, _, _)
lunix_protocol_received_buf(c, buf, i, tm) ==
    IF i >= Len(buf) THEN c
    ELSE LET st == c.st
             r == lunix_protocol_parse_state(st, buf, i, use_specials(st.state))
             last == PacketByte(r.st.packet, r.st.pos - 1)
         IN  IF r.ret = 0 \/ r.st.state # st.state
             THEN lunix_protocol_received_buf([c EXCEPT !.st = r.st], buf, r.i, tm)
             ELSE IF st.state = "SEEKING_START_BYTE"
             THEN lunix_protocol_received_buf(
                      [c EXCEPT !.st = StartByteRead(r.st)], buf, r.i, tm)
             ELSE IF st.state = "SEEKING_END_BYTE"
             THEN lunix_protocol_received_buf(EndByteRead(c, r.st, tm), buf, r.i, tm)
             ELSE lunix_protocol_received_buf(
                      [c EXCEPT !.st = AfterField(r.st)], buf, r.i, tm)

(***************************************************************************)
(* The packets a node sends and the byte streams the line delivers.        *)
(***************************************************************************)
Lo(x) == x % 256
Hi(x) == x \div 256

\* a packet of 17 payload bytes: its signature (AM type), AM group, node id,
\* the three raw measurements and its CRC
Packet(sig, group, node, batt, temp, light, crc) ==
    [sig |-> sig, group |-> group, nodeid |-> node, batt |-> batt,
     temp |-> temp, light |-> light, crc |-> crc]

\* the bytes of a packet between its start byte and its end byte
Fields(f) ==
    <<66, 255, 255, f.sig, f.group, 17,
      0, 0, Lo(f.nodeid), Hi(f.nodeid), 0, 0, 0, 0, 0, 0, 0,
      Lo(f.batt), Hi(f.batt), Lo(f.temp), Hi(f.temp),
      Lo(f.light), Hi(f.light), Lo(f.crc), Hi(f.crc)>>

\* byte-stuffing by the sender: 0x7E and 0x7D travel as 0x7D, byte ^ 0x20
RECURSIVE Stuffed(_)
Stuffed(bytes) ==
    IF bytes = <<>> THEN <<>>
    ELSE (IF Head(bytes) \in {FLAG_BYTE, ESCAPE_BYTE}
          THEN <<ESCAPE_BYTE, FlipEscapeBit(Head(bytes))>>
          ELSE <<Head(bytes)>>) \o Stuffed(Tail(bytes))

OnWire(f) == <<FLAG_BYTE>> \o Stuffed(Fields(f)) \o <<FLAG_BYTE>>

RECURSIVE OnWireAll(_)
OnWireAll(fs) == IF fs = <<>> THEN <<>> ELSE OnWire(Head(fs)) \o OnWireAll(Tail(fs))

\* node 1 with 0x7E and 0x7D among its group, measurement and CRC bytes
PacketEscapes == Packet(SENSOR_SIGNATURE, 125, 1, 32381, 512, 8318, 32126)
\* node 1, no byte to escape
PacketPlain == Packet(SENSOR_SIGNATURE, 0, 1, 512, 512, 512, 4660)
\* the last sensor, and the node ids on either side of the valid range
PacketLast == Packet(SENSOR_SIGNATURE, 0, lunix_sensor_cnt, 256, 0, 256, 4660)
PacketNode0 == Packet(SENSOR_SIGNATURE, 0, 0, 300, 301, 302, 4660)
PacketNode17 == Packet(SENSOR_SIGNATURE, 0, lunix_sensor_cnt + 1, 400, 401, 402, 4660)
\* a packet of another kind from node 1
PacketOther == Packet(12, 0, 1, 500, 501, 502, 4660)

\* streams of whole packets, the third after two bytes of noise
WholeStreams ==
    {[bytes |-> pre \o OnWireAll(fs), sent |-> fs, cut |-> 0] :
        <<pre, fs>> \in {<<<<>>, <<PacketEscapes>>>>,
                         <<<<>>, <<PacketLast, PacketNode17, PacketNode0, PacketPlain>>>>,
                         <<<<1, 2>>, <<PacketOther, PacketPlain, PacketOther>>>>}}
\* a packet cut after its first cut bytes, then a whole packet
CutStreams ==
    {[bytes |-> SubSeq(OnWire(PacketEscapes), 1, k) \o OnWire(PacketPlain),
      sent |-> <<PacketPlain>>, cut |-> k] :
        k \in 1 .. Len(OnWire(PacketEscapes)) - 1}
Streams == WholeStreams \cup CutStreams

\* lunix_ldisc_receive_buf: the line hands the next n bytes to the parser
ParserContext ==
    [st |-> lunix_protocol_state, sensors |-> lunix_sensors, applied |-> applied]

\* variant: the escape flag is a local of the call
LdiscReceiveBufLocalEscape(n) ==
    /\ n \in 1 .. Len(stream.bytes) - fed
    /\ LET c == lunix_protocol_received_buf(
                    [ParserContext EXCEPT !.st.next_is_special = 0],
                    SubSeq(stream.bytes, fed + 1, fed + n), 0, Max(now, 1))
       IN  /\ lunix_protocol_state' = c.st
           /\ lunix_sensors' = c.sensors
           /\ applied' = c.applied
           /\ escape_split' = (escape_split \/ c.st.next_is_special = 1)
    /\ fed' = fed + n
    /\ UNCHANGED stream
    /\ UNCHANGED <<vars, renderVars>>

LdiscReceiveBuf(n) ==
    /\ n \in 1 .. Len(stream.bytes) - fed
    /\ LET c == lunix_protocol_received_buf(
                    ParserContext,
                    SubSeq(stream.bytes, fed + 1, fed + n), 0, Max(now, 1))
       IN  /\ lunix_protocol_state' = c.st
           /\ lunix_sensors' = c.sensors
           /\ applied' = c.applied
           /\ escape_split' = (escape_split \/ c.st.next_is_special = 1)
    /\ fed' = fed + n
    /\ UNCHANGED stream
    /\ UNCHANGED <<vars, renderVars>>

InitStreams ==
    /\ InitDriver
    /\ InitProtocol
    /\ stream \in Streams
    /\ sample = NoSample
    /\ converted_value = 0
    /\ NothingRendered

NextProto == \E n \in 1 .. Len(stream.bytes) : LdiscReceiveBuf(n)

allVars == <<vars, protoVars, renderVars>>
SpecProto == InitStreams /\ [][NextProto]_allVars

\* the parser has been given all of the stream
\* packets of another kind with payloads of 0, 1, 2 and 3 bytes, as they
\* travel: start byte, type, destination, AM type, AM group, payload length,
\* payload, CRC, end byte
ShortPacket(payload) ==
    <<FLAG_BYTE, 66, 255, 255, 12, 0, Len(payload)>> \o Stuffed(payload)
        \o <<52, 18, FLAG_BYTE>>
\* streams of short packets: after noise; with escaped payload bytes and a
\* packet whose end byte is not 0x7E; with a 0x7E in the middle of a
\* field; and with noise between two packets
StageStreams ==
    {[bytes |-> b, sent |-> <<>>, cut |-> 0] :
        b \in {<<1, 2>> \o ShortPacket(<<>>) \o ShortPacket(<<7, 8>>),
               ShortPacket(<<FLAG_BYTE, ESCAPE_BYTE>>)
                   \o SubSeq(ShortPacket(<<9>>), 1, 10) \o <<85>>
                   \o ShortPacket(<<>>),
               SubSeq(ShortPacket(<<9>>), 1, 3) \o ShortPacket(<<>>)
                   \o SubSeq(ShortPacket(<<9>>), 1, 9) \o ShortPacket(<<5, 6, 7>>),
               ShortPacket(<<5, 6, 7>>) \o <<3, 4>> \o OnWire(PacketEscapes)}}

\* a packet of measurements after bytes that are not the start byte, the
\* escape character among them
Garbage == {<<>>, <<125>>, <<3, 125, 4>>, <<0, 255, 125, 125, 85, 1>>}
GarbageStreams ==
    {[bytes |-> g \o OnWire(PacketEscapes), sent |-> <<PacketEscapes>>, cut |-> 0] :
        g \in Garbage}

\* a packet with the signature of measurements whose payload is too short
\* to hold them
ShortSensorPacket(payload) ==
    <<FLAG_BYTE, 66, 255, 255, SENSOR_SIGNATURE, 0, Len(payload)>> \o Stuffed(payload)
        \o <<52, 18, FLAG_BYTE>>
\* the payloads of such packets: none, and four bytes that end with node id 2
ShortPayloads == {<<>>, <<0, 0, 2, 0>>}
\* a whole packet of measurements, then such a short one
StaleStreams ==
    {[bytes |-> OnWire(f) \o ShortSensorPacket(p), sent |-> <<f>>, cut |-> 0] :
        f \in {PacketPlain, PacketLast}, p \in ShortPayloads}

InitStages ==
    /\ InitDriver
    /\ InitProtocol
    /\ stream \in StageStreams \cup GarbageStreams \cup StaleStreams
    /\ sample = NoSample
    /\ converted_value = 0
    /\ NothingRendered

SpecStages == InitStages /\ [][NextProto]_allVars

AllFed == fed = Len(stream.bytes)
\* the parser state after the whole stream is given in one call
OneCall ==
    lunix_protocol_received_buf(
        [st |-> InitProtocolState, sensors |-> InitSensors, applied |-> <<>>],
        stream.bytes, 0, Max(now, 1))
\* what the parser should read from a packet sent
ToExtract(f) ==
    [sig |-> f.sig, nodeid |-> f.nodeid, batt |-> f.batt, temp |-> f.temp,
     light |-> f.light]

TypeOKProto ==
    /\ lunix_protocol_state.state \in StageSet
    /\ lunix_protocol_state.pos \in 0 .. MAX_PACKET_LEN
    /\ lunix_protocol_state.next_is_special \in {0, 1}
    /\ fed \in 0 .. Len(stream.bytes)

(***************************************************************************)
(* The rendering of a converted value (lunix-chrdev.c, lines 114-115).     *)
(***************************************************************************)
\* the samples of the model through the three tables
TableValues == {Convert(k, raw) : k \in Kinds, raw \in {0, 256, 512}}
\* values around every change of the number of digits and of the sign, the
\* absolute zero of the temperature table and the ends of the other tables
MilliUnits ==
    TableValues \cup (-1002 .. -998) \cup (-105 .. -95) \cup (-12 .. 12) \cup (95 .. 105)
        \cup (998 .. 1002) \cup {-272150, -99999, 1251129, 5000000}

\* state->buf_lim = snprintf(state->buf_data, LUNIX_CHRDEV_BUFSZ, ...)
Render ==
    /\ sample.done
    /\ rendered_lim = -1
    /\ rendered_data' = SnprintfStored(FormatValue(converted_value), LUNIX_CHRDEV_BUFSZ)
    /\ rendered_lim' = SnprintfRet(FormatValue(converted_value))
    /\ UNCHANGED <<sample, converted_value>>
    /\ UNCHANGED <<vars, protoVars>>

InitRender ==
    /\ InitDriver
    /\ InitProtocol
    /\ stream = [bytes |-> <<>>, sent |-> <<>>, cut |-> 0]
    /\ sample = NoSample
    /\ converted_value \in MilliUnits
    /\ NothingRendered

SpecRender == InitRender /\ [][Render]_allVars

\* raw battery samples: the least, powers of two and their neighbours, the
\* greatest; none divides 1223 * 1023, so that the quotient is no whole
\* number and the floating-point product is cut as the exact one is
BattSamples ==
    {0, 2, 4, 5, 6, 7, 255, 256, 257, 511, 512, 513, 767, 768, 1000, 1022,
     1024, 1025, 1333, 2047, 2048, 4096, 8192, 16384, 32767, 32768, 65533,
     65534, 65535}
\* raw light samples
LightSamples == {0, 1, 2, 13, 255, 256, 257, 511, 512, 513, 1023, 2000}
\* raw temperature samples: those whose table entries the module carries
TempSamples == {0, 242, 256, 512}
Samples ==
    ({BATT} \X BattSamples) \cup ({LIGHT} \X LightSamples) \cup ({TEMP} \X TempSamples)

\* converted_value = lookup_voltage[raw_data], lookup_temperature[raw_data]
\* or lookup_light[raw_data]
Lookup ==
    /\ ~sample.done
    /\ converted_value' = Convert(sample.kind, sample.raw)
    /\ sample' = [sample EXCEPT !.done = TRUE]
    /\ UNCHANGED <<rendered_data, rendered_lim>>
    /\ UNCHANGED <<vars, protoVars>>

InitConvert ==
    /\ InitDriver
    /\ InitProtocol
    /\ stream = [bytes |-> <<>>, sent |-> <<>>, cut |-> 0]
    /\ \E x \in Samples : sample = [kind |-> x[1], raw |-> x[2], done |-> FALSE]
    /\ converted_value = 0
    /\ NothingRendered

NextConvert == Lookup \/ Render

SpecConvert == InitConvert /\ [][NextConvert]_allVars

(***************************************************************************)
(* Vocabulary of the properties.                                           *)
(***************************************************************************)
\* positions of the loop of lines 224-235, before a refresh has begun
LoopPcs == {"update", "wait", "w_prep", "w_cond", "w_sched", "redown"}
\* positions inside wait_event_interruptible (line 230)
WaitPcs == {"wait", "w_prep", "w_cond", "w_sched"}
\* positions of lunix_chrdev_state_update past its test (lines 85-115)
RefreshPcs == {"spin", "locked", "store"}
\* a thread is asleep on sensor->wq
Asleep(t) == pc[t] = "w_sched" /\ ~running[t]
\* a refresh of session s is in progress
Refreshing(s) == \E t \in Threads : rs[t] = s /\ pc[t] \in RefreshPcs
\* the text a refresh would cache for kind k from the sensor's present value
Rendering(k) == SnprintfStored(FormatValue(Convert(k, values[k])), LUNIX_CHRDEV_BUFSZ)

(***************************************************************************)
(* C1.                                                                     *)
(***************************************************************************)
\* C1: a read call that found *f_pos = 0 and is in the loop of lines 224-235
\* stays in that loop, returning no bytes, for as long as the cached
\* timestamp equals the sensor's timestamp (needsRefresh false): the only
\* step that takes it out of the loop from such a state is an interruption,
\* which ends the call with -ERESTARTSYS.
C1_BlocksUntilNeedsRefresh ==
    [][\A t \in Threads :
          (pc[t] \in LoopPcs /\ ~NeedsRefresh(rs[t]))
              => (pc'[t] \in LoopPcs \/ outcome'[t] = "ERESTARTSYS")]_vars

\* a reader sleeps on a cache that a refresh filled, its stamp still current
C1_Witness ==
    \E t \in Threads :
        /\ Asleep(t)
        /\ ~NeedsRefresh(rs[t])
        /\ buf_timestamp[rs[t]] # 0
        /\ f_pos[rs[t]] = 0

(***************************************************************************)
(* C2.                                                                     *)
(***************************************************************************)
\* C2: with two sessions open on the same sensor and kind, a read that is in
\* progress on one of them while the sensor carries an update newer than
\* the one the session has cached does not stay blocked forever: under fair
\* scheduling it eventually returns (with the new value, or interrupted).
\* The code does not satisfy it.
C2_NoLostWakeup ==
    \A t \in Threads :
        (InCall(t) /\ ppc = "idle" /\ cache_by[rs[t]] < stamp_by[type[rs[t]]])
            ~> ~InCall(t)

(***************************************************************************)
(* C9.                                                                     *)
(***************************************************************************)
\* a thread in a call that cannot take a step until another context acts
Blocked(t) ==
    \/ pc[t] \in {"down", "redown"} /\ lock[rs[t]] = 0
    \/ pc[t] = "spin" /\ slock # "free"
    \/ Asleep(t)
\* a thread waits for its session's lock or for the sensor lock
LockWait(t) == pc[t] \in {"down", "redown", "spin"}
\* no update is running and every thread that is in a call is blocked
Quiescent == ppc = "idle" /\ \A t \in Threads : InCall(t) => Blocked(t)

\* C9: no thread waits forever for a session lock or for the sensor lock
\* (again and again it is not waiting for one), the producer included; in a state where no update is running and every
\* reader in a call is blocked, each of them sleeps on the notification
\* channel with needsRefresh false and holds no lock, and the sensor lock is
\* free, so that the producer can proceed; and a sleeper whose needsRefresh
\* has become true has a wake-up of the running update on its way.
C9_DeadlockFree ==
    /\ [](Quiescent =>
             /\ slock = "free"
             /\ \A t \in Threads :
                    InCall(t) => (Asleep(t) /\ ~NeedsRefresh(rs[t]) /\ held[t] = 0))
    /\ [](\A t \in Threads :
             (Asleep(t) /\ NeedsRefresh(rs[t])) => ppc \in {"stamp", "unlock", "wake"})
    /\ \A t \in Threads : []<>(~LockWait(t))
    /\ []<>(ppc # "lock")

\* every thread is in a call and asleep on the channel after an update, and
\* the producer is between two updates
C9_Witness ==
    /\ Quiescent
    /\ nupd >= 1
    /\ \A t \in Threads : Asleep(t) /\ buf_lim[rs[t]] > 0

(***************************************************************************)
(* C3.                                                                     *)
(***************************************************************************)
\* C3: the raw value and the timestamp a refresh has snapshotted were written
\* by one and the same call of lunix_sensor_update (or both are the initial
\* zeroes), and whenever the sensor lock is free the values and timestamps of
\* the three kinds all come from one and the same call.
C3_UpdateAtomic ==
    /\ \A t \in Threads : pc[t] = "store" => snap_by[t][1] = snap_by[t][2]
    /\ slock = "free" =>
           \A j, k \in Kinds :
               /\ val_by[j] = stamp_by[k]
               /\ val_by[j] = val_by[k]
               /\ stamp_by[j] = stamp_by[k]

\* a refresh holds the snapshot of the first update while the second update
\* is in the middle of its writes
C3_Witness ==
    \E t \in Threads :
        /\ pc[t] = "store"
        /\ snap_by[t] = <<1, 1>>
        /\ ppc = "stamp"
        /\ nupd = 2
        /\ ptodo # Kinds

C5_CacheValidIffTimestampsEqual ==
    \A s \in Sessions :
        (/\ opened[s]
         /\ cache_by[s] # 0
         /\ ~Refreshing(s)
         /\ slock = "free"
         /\ buf_timestamp[s] = last_update[type[s]])
            => /\ buf_data[s] = Rendering(type[s])
               /\ buf_lim[s] = Len(Rendering(type[s]))

(***************************************************************************)
(* C6.                                                                     *)
(***************************************************************************)
\* C6: every read call on an open session ends in exactly one of: success
\* with N >= 1 bytes, end-of-data with 0 bytes, interrupted (-ERESTARTSYS),
\* or bad address (-EFAULT, when copy_to_user fails); the kind of an open
\* session is always one of the three valid kinds, so the -EINVAL branch of
\* the refresh is never taken.
C6_ReadOutcomes ==
    /\ \A s \in Sessions : opened[s] => type[s] \in Kinds
    /\ \A t \in Threads :
           /\ outcome[t] \in {"idle", "none", "bytes", "eof", "ERESTARTSYS", "EFAULT"}
           /\ (~InCall(t)) => outcome[t] # "none"
           /\ pc[t] = "out" => outcome[t] \in {"bytes", "eof", "EFAULT"}
           /\ (pc[t] = "out" /\ outcome[t] = "bytes") =>
                  (ret[t] >= 1 /\ Len(delivered[t]) = ret[t])
           /\ (pc[t] = "out" /\ outcome[t] = "eof") =>
                  (ret[t] = 0 /\ delivered[t] = <<>>)

\* a call is about to return a byte count after a refresh
C6_Witness ==
    \E t \in Threads :
        /\ pc[t] = "out"
        /\ outcome[t] = "bytes"
        /\ ret[t] = 5
        /\ wrote[t]

\* C6 as the specification states it: success, end-of-data and interrupted
\* are the only outcomes of a read call.
C6_ThreeOutcomesOnly ==
    \A t \in Threads : outcome[t] \in {"idle", "none", "bytes", "eof", "ERESTARTSYS"}

(***************************************************************************)
(* C7.                                                                     *)
(***************************************************************************)
\* C7: a read call that ends interrupted, at the first acquisition of the
\* session lock, during the wait for new data or at the re-acquisition
\* after a wake-up, has not changed the session's cache text, cache length,
\* cached timestamp or offset.
C7_InterruptedLeavesSession ==
    \A t \in Threads : outcome[t] = "ERESTARTSYS" => ~wrote[t]

\* a call was interrupted on a session whose cache a refresh had filled
C7_Witness ==
    \E t \in Threads :
        /\ outcome[t] = "ERESTARTSYS"
        /\ ~InCall(t)
        /\ opened["s1"]
        /\ buf_lim["s1"] > 0

(***************************************************************************)
(* C8.                                                                     *)
(***************************************************************************)
\* C8: a thread suspended on the sensor's notification channel does not
\* hold its session's lock (the lock is released before the wait), and a
\* thread that goes on from the wait to the refresh test holds it again.
C8_NoLockWhileWaiting ==
    \A t \in Threads :
        /\ pc[t] \in WaitPcs => held[t] = 0
        /\ pc[t] \in {"update", "spin", "locked", "store", "copy", "rewind", "out"} =>
               (held[t] = 1 /\ lock[rs[t]] = 0)

\* one thread sleeps on the channel while another holds the lock of the
\* same session
C8_Witness ==
    \E t, u \in Threads :
        /\ Asleep(t)
        /\ rs[u] = rs[t]
        /\ held[u] = 1
        /\ lock[rs[t]] = 0

(***************************************************************************)
(* C10.                                                                    *)
(***************************************************************************)
\* C10: a read that reaches the copy step (line 239) with cache length L,
\* offset p and maxBytes n has deliverable d = min(n, max(0, L - p)); if
\* d = 0 it reports end-of-data and leaves the offset alone; otherwise,
\* unless copy_to_user fails, it delivers exactly the d bytes of the cache
\* text from offset p on and advances the offset by d; if copy_to_user
\* fails it delivers nothing, leaves the offset alone and reports -EFAULT.
C10_CopyStep ==
    \A t \in Threads :
        LET s == rs[t]
            d == Min(cnt[t], Max(0, buf_lim[s] - pos0[t]))
        IN  /\ pc[t] = "rewind" =>
                /\ outcome[t] = "bytes"
                /\ d >= 1
                /\ ret[t] = d
                /\ delivered[t] = SubSeq(buf_data[s], pos0[t] + 1, pos0[t] + d)
                /\ f_pos[s] = pos0[t] + d
            /\ (pc[t] = "out" /\ outcome[t] = "eof") =>
                /\ d = 0
                /\ ret[t] = 0
                /\ delivered[t] = <<>>
                /\ f_pos[s] = pos0[t]
            /\ (pc[t] = "out" /\ outcome[t] = "EFAULT") =>
                /\ d >= 1
                /\ delivered[t] = <<>>
                /\ f_pos[s] = pos0[t]

\* a call has delivered the tail of the cache from a non-zero offset, with
\* maxBytes larger than what is left
C10_Witness ==
    \E t \in Threads :
        /\ pc[t] = "rewind"
        /\ pos0[t] = 5
        /\ cnt[t] = 20
        /\ ret[t] = buf_lim[rs[t]] - 5
        /\ ret[t] >= 1

\* C10 as the specification states it: every read that reaches the copy
\* step delivers exactly deliverable bytes and advances the offset by them.
C10_AlwaysDelivers ==
    \A t \in Threads :
        pc[t] \in {"rewind", "out"} =>
            LET d == Min(cnt[t], Max(0, buf_lim[rs[t]] - pos0[t]))
            IN  /\ Len(delivered[t]) = d
                /\ delivered[t] = SubSeq(buf_data[rs[t]], pos0[t] + 1, pos0[t] + d)
                /\ pc[t] = "rewind" => f_pos[rs[t]] = pos0[t] + d


(***************************************************************************)
(* C11.                                                                    *)
(***************************************************************************)
\* C11: a read that ends at the end of the cache, having delivered the last
\* byte or reporting end-of-data with the offset at or past the cache
\* length, leaves the offset reset to 0, so that the next read on the
\* session starts a refresh cycle.  The code does not satisfy it.
C11_AutoRewind ==
    \A t \in Threads :
        (pc[t] = "out" /\ outcome[t] \in {"bytes", "eof"})
            => (f_pos[rs[t]] >= buf_lim[rs[t]] => f_pos[rs[t]] = 0)

(***************************************************************************)
(* C12.                                                                    *)
(***************************************************************************)
\* the request names one of the three kinds and a sensor that exists
ValidMinor(m) == m % 8 \in Kinds /\ m \div 8 \in 0 .. lunix_sensor_cnt - 1

HandedFor(id) ==
    {j \in 1 .. Len(applied) :
        applied[j].sig = SENSOR_SIGNATURE /\ applied[j].nodeid = id}
SetMax(S) == CHOOSE x \in S : \A y \in S : y <= x

\* C13: a packet of measurements is accepted only when its node id is in
\* [1, sensorCount] and then updates sensors[nodeId - 1] and no other: each
\* sensor i has been updated and its waiters woken once per packet handed
\* over for node i + 1, and holds the values of the last of them; packets
\* for node ids 0 and sensorCount + 1 change no sensor and wake nobody.
C13_ApplyNodeRange ==
    /\ \A i \in 0 .. lunix_sensor_cnt - 1 :
          LET hits == HandedFor(i + 1)
          IN  /\ lunix_sensors[i].wakeups = Cardinality(hits)
              /\ hits = {} => lunix_sensors[i] = InitSensors[i]
              /\ hits # {} =>
                     LET x == applied[SetMax(hits)]
                     IN  /\ lunix_sensors[i].values = <<x.batt, x.temp, x.light>>
                         /\ lunix_sensors[i].last_update # 0
    /\ DOMAIN lunix_sensors = 0 .. lunix_sensor_cnt - 1

\* packets for node 16, 17 and 0 have been handed over, in that order
C13_Witness ==
    /\ Len(applied) >= 3
    /\ applied[1].nodeid = lunix_sensor_cnt
    /\ applied[2].nodeid = lunix_sensor_cnt + 1
    /\ applied[3].nodeid = 0
    /\ \A j \in 1 .. 3 : applied[j].sig = SENSOR_SIGNATURE
    /\ lunix_sensors[lunix_sensor_cnt - 1].values = <<256, 0, 256>>

(***************************************************************************)
(* C14.                                                                    *)
(***************************************************************************)
\* C14: a call of the parser that hands over only packets whose signature
\* byte (packet offset 4) is not 0x0B leaves the registry as it was: no raw
\* value, no timestamp, no wake-up.
C14_OtherSignatureDiscarded ==
    [][(/\ Len(applied') > Len(applied)
        /\ \A j \in Len(applied) + 1 .. Len(applied') :
               applied'[j].sig # SENSOR_SIGNATURE)
           => lunix_sensors' = lunix_sensors]_allVars

\* a complete packet of another signature, with a valid node id and values
\* that the sensor does not hold, has been handed over
C14_Witness ==
    /\ applied # <<>>
    /\ applied[Len(applied)].sig # SENSOR_SIGNATURE
    /\ applied[Len(applied)].nodeid = 1
    /\ applied[Len(applied)].batt = 500
    /\ lunix_sensors[0].values # <<500, 501, 502>>

C16_Resynchronizes ==
    (stream.cut > 0 /\ AllFed) =>
        /\ \E j \in 1 .. Len(applied) : applied[j] = ToExtract(stream.sent[1])
        /\ lunix_sensors[stream.sent[1].nodeid - 1].values =
               <<stream.sent[1].batt, stream.sent[1].temp, stream.sent[1].light>>

(***************************************************************************)
(* C17.                                                                    *)
(***************************************************************************)
\* the line hands the parser one byte, b
OneByte(b) == fed' = fed + 1 /\ stream.bytes[fed + 1] = b

\* C17: whenever the parser is in SEEKING_END_BYTE and is given 0x7E, the
\* packet is handed to lunix_protocol_update_sensors exactly once and the
\* parser is back in SEEKING_START_BYTE with pos 0 and the escape flag
\* clear, whatever the signature and the node id of the packet are.
C17_EndByteHandsOverAndResets ==
    [][(lunix_protocol_state.state = "SEEKING_END_BYTE" /\ OneByte(FLAG_BYTE))
          => /\ Len(applied') = Len(applied) + 1
             /\ SubSeq(applied', 1, Len(applied)) = applied
             /\ lunix_protocol_state'.state = "SEEKING_START_BYTE"
             /\ lunix_protocol_state'.pos = 0
             /\ lunix_protocol_state'.next_is_special = 0
             /\ lunix_protocol_state'.bytes_read = 0
             /\ lunix_protocol_state'.bytes_to_read = 1]_allVars

\* a packet for node 17, that the registry refuses, has just been handed
\* over and the parser has started again
C17_Witness ==
    /\ Len(applied) = 2
    /\ applied[2].nodeid = lunix_sensor_cnt + 1
    /\ lunix_protocol_state.state = "SEEKING_START_BYTE"
    /\ lunix_protocol_state.pos = 0
    /\ fed = Len(OnWire(PacketLast)) + Len(OnWire(PacketNode17))

DigitOf(c) ==
    CASE c = "0" -> 0 [] c = "1" -> 1 [] c = "2" -> 2 [] c = "3" -> 3
      [] c = "4" -> 4 [] c = "5" -> 5 [] c = "6" -> 6 [] c = "7" -> 7
      [] c = "8" -> 8 [] c = "9" -> 9 [] OTHER -> -1
AllDigits(cs) == cs # <<>> /\ \A j \in 1 .. Len(cs) : DigitOf(cs[j]) >= 0
\* the number a string of digits reads as
RECURSIVE NumberRead(_)
NumberRead(cs) ==
    IF cs = <<>> THEN 0
    ELSE 10 * NumberRead(SubSeq(cs, 1, Len(cs) - 1)) + DigitOf(cs[Len(cs)])
\* cs is how a number is written in decimal: no sign for zero and above, no
\* leading zero
WrittenNumber(cs) ==
    LET ds == IF cs # <<>> /\ Head(cs) = "-" THEN Tail(cs) ELSE cs
    IN  /\ AllDigits(ds)
        /\ Len(ds) > 1 => ds[1] # "0"
        /\ (cs # <<>> /\ Head(cs) = "-") => NumberRead(ds) > 0
SignedRead(cs) ==
    IF Head(cs) = "-" THEN 0 - NumberRead(Tail(cs)) ELSE NumberRead(cs)

\* C20: the text rendered for a value of milliUnits, positive, zero or
\* negative, is <int>.<frac>\n where <int> is the decimal of milliUnits /
\* 1000 truncated toward zero and <frac> is abs(milliUnits % 1000) in three
\* digits, zero-padded; and the cache length is the length of that text.
C20_RenderedFormat ==
    rendered_lim # -1 =>
        LET text == rendered_data
            n == Len(text)
            int == SubSeq(text, 1, n - 5)
            frac == SubSeq(text, n - 3, n - 1)
            q == SignedRead(int)
            f == NumberRead(frac)
            v == converted_value
        IN  /\ n >= 6
            /\ text[n] = "\n"
            /\ text[n - 4] = "."
            /\ Len(frac) = 3 /\ AllDigits(frac)
            /\ WrittenNumber(int)
            \* q is v / 1000 truncated toward zero, f the rest without sign
            /\ v >= 0 => (q >= 0 /\ v = 1000 * q + f)
            /\ v < 0 => (q <= 0 /\ v = 1000 * q - f)
            /\ rendered_lim = n

\* a negative value above -1000 has been rendered: its integer part is 0
\* and carries no sign
C20_Witness ==
    /\ converted_value = -5
    /\ rendered_lim = 6
    /\ rendered_data = <<"0", ".", "0", "0", "5", "\n">>

(***************************************************************************)
(* C21.                                                                    *)
(***************************************************************************)
\* a battery sample has been looked up
BattLookedUp(raw) == sample.kind = BATT /\ sample.raw = raw /\ sample.done

\* C21 as stated: battery sample 512 converts to the millivolts of
\* 1.223 * 1023 / 512 rounded to the nearest, which the claim takes to be
\* 2443, and the text for it is "2.443\n".
C21_RoundedBattery ==
    BattLookedUp(512) =>
        /\ 2 * 512 * converted_value - 512 <= 2 * 1223 * 1023
        /\ 2 * 1223 * 1023 < 2 * 512 * converted_value + 512
        /\ converted_value = 2443
        /\ rendered_lim # -1 => rendered_data = <<"2", ".", "4", "4", "3", "\n">>

\* C21, amended: a battery sample converts to the millivolts of
\* 1.223 * 1023 / raw cut to a whole number, not rounded; for 512 that is
\* 2443 (of 2443.6) and the text for it is "2.443\n".
C21_TruncatedBattery ==
    /\ \A raw \in BattSamples \ {0} :
          BattLookedUp(raw) =>
              /\ raw * converted_value <= 1223 * 1023
              /\ 1223 * 1023 - raw * converted_value < raw
    /\ BattLookedUp(0) => converted_value = 0
    /\ BattLookedUp(512) =>
          /\ converted_value = 2443
          /\ rendered_lim # -1 => rendered_data = <<"2", ".", "4", "4", "3", "\n">>

\* battery sample 512 has been looked up and rendered
C21_Witness ==
    /\ BattLookedUp(512)
    /\ rendered_lim = 6
    /\ converted_value = 2443

(***************************************************************************)
(* C22.                                                                    *)
(***************************************************************************)
\* the stamps of the three kinds are the same
StampsEqual == \A j, k \in Kinds : last_update[j] = last_update[k]

\* C22: whenever no update is in the middle of its stores the timestamps of
\* the three kinds are mutually equal, and no step makes the timestamp of a
\* kind smaller.  The code does not satisfy the second part.
C22_StampsEqualNeverDecrease ==
    /\ [](ppc # "stamp" => StampsEqual)
    /\ [][\A k \in Kinds : last_update'[k] >= last_update[k]]_vars

(***************************************************************************)
(* C23.                                                                    *)
(***************************************************************************)
\* a reader that wake_up_interruptible has made runnable and that has not
\* yet tested its condition again
Woken(t) == pc[t] = "w_sched" /\ running[t]

\* C23: the wake-up of an update is made with the sensor lock released by
\* the update and with the stamps of that update written, it makes every
\* queued waiter runnable, and the update that wrote a stamp is never
\* replaced by an earlier one: the reader woken tests needsRefresh against
\* the stamp of the update that woke it or of a later one.
C23_WakeAfterWrite ==
    /\ [][(ppc = "wake" /\ ppc' = "idle") =>
             /\ slock # "prod"
             /\ \A k \in Kinds : stamp_by[k] = nupd /\ last_update[k] = pstamp
             /\ \A t \in wq : running'[t]
             /\ wq' = {}]_vars
    /\ [][\A k \in Kinds : stamp_by'[k] >= stamp_by[k]]_vars
    /\ [](\A t \in Threads :
             Woken(t) => \A k \in Kinds : stamp_by[k] >= 1 /\ stamp_by[k] >= nupd - 1)

\* a reader woken by an update, about to test needsRefresh against the stamp
\* that update wrote
C23_Witness ==
    \E t \in Threads :
        /\ Woken(t)
        /\ ppc = "idle"
        /\ stamp_by[type[rs[t]]] = nupd
        /\ NeedsRefresh(rs[t])

(***************************************************************************)
(* C24.                                                                    *)
(***************************************************************************)
\* what a session owns: its cache, cached timestamp, offset and lock
SessionState(s) == <<buf_data[s], buf_lim[s], buf_timestamp[s], f_pos[s], lock[s]>>

\* the step is one of thread t, in a call on session s before or after it
StepOfThreadOn(t, s) ==
    /\ <<pc[t], rs[t], outcome[t]>>' # <<pc[t], rs[t], outcome[t]>>
    /\ s \in {rs[t], rs'[t]}

\* the step is an open or a release of session s
OpenOrReleaseOf(s) == <<opened[s], open_ret[s]>>' # <<opened[s], open_ret[s]>>

\* C24: a step that is not one of lunix_sensor_update leaves every raw value
\* and timestamp of the sensor as it was; what a session owns changes only
\* in a step of an open, a release or a read of that very session, and no
\* step changes two sessions; a reader waiting for a session lock waits
\* for a thread of its own session, and a reader that holds the sensor lock
\* is running, at the two reads of the critical section, so that no session
\* asleep or holding its session lock keeps another from its read.
C24_SessionsIndependent ==
    /\ [][prodVars' = prodVars =>
             values' = values /\ last_update' = last_update]_vars
    /\ [][\A s \in Sessions :
             SessionState(s)' # SessionState(s) =>
                 /\ OpenOrReleaseOf(s) \/ \E t \in Threads : StepOfThreadOn(t, s)
                 /\ \A o \in Sessions \ {s} : SessionState(o)' = SessionState(o)]_vars
    /\ [](\A t \in Threads :
             /\ (pc[t] \in {"down", "redown"} /\ lock[rs[t]] = 0) =>
                    \E u \in Threads \ {t} : rs[u] = rs[t] /\ held[u] = 1
             /\ slock = t => pc[t] = "locked" /\ running[t])

\* one session asleep in read with its cache up to date while the thread of
\* the other session, on the same sensor, has refreshed and is copying
C24_Witness ==
    /\ Asleep("t1") /\ rs["t1"] = "s1"
    /\ pc["t2"] = "copy" /\ rs["t2"] = "s2" /\ held["t2"] = 1
    /\ buf_lim["s1"] > 0 /\ buf_lim["s2"] > 0
    /\ cache_by["s2"] > cache_by["s1"]

(***************************************************************************)
(* C25.                                                                    *)
(***************************************************************************)
\* the step is one of lunix_sensor_update
UpdateStep == prodVars' # prodVars

\* C25: a step of lunix_sensor_update takes or releases no session lock,
\* queues nothing on the wait queue and puts no task to sleep; the only thing
\* an update waits for is the sensor lock, and a reader that holds the sensor
\* lock is running, at the two reads of its critical section, never asleep
\* nor waiting for a session lock; so every update that has been called
\* completes, whatever the readers do: again and again no update is in
\* progress.
C25_ProducerNeverBlocks ==
    /\ [][UpdateStep =>
             /\ lock' = lock /\ held' = held
             /\ wq' \subseteq wq
             /\ \A t \in Threads : running[t] => running'[t]]_vars
    /\ [](\A t \in Threads : slock = t => pc[t] = "locked" /\ running[t])
    /\ [](ppc \in {"values", "stamp", "unlock"} => slock = "prod")
    /\ []<>(ppc = "idle")

\* an update has been called and waits for the sensor lock, which a reader
\* holds, while another reader is inside wait_event_interruptible
C25_Witness ==
    /\ ppc = "lock"
    /\ \E t \in Threads : slock = t
    /\ \E u \in Threads : pc[u] = "w_sched"

(***************************************************************************)
(* C26.                                                                    *)
(***************************************************************************)
\* the packets of measurements sent whole for node id
WholeFor(id) ==
    {j \in 1 .. Len(stream.sent) :
        stream.sent[j].sig = SENSOR_SIGNATURE /\ stream.sent[j].nodeid = id}

\* C26: whatever the stream, only packets that were sent whole are handed
\* over; a sensor is as lunix_sensor_init left it, no waiter woken, or holds
\* the measurements of a packet sent whole for its node; and while the bytes
\* given are those of a packet cut short, nothing is handed over and no
\* sensor changes.  The code does not satisfy the first two.
C26_NoParserErrorReachesConsumer ==
    /\ \A j \in 1 .. Len(applied) :
          \E k \in 1 .. Len(stream.sent) : applied[j] = ToExtract(stream.sent[k])
    /\ \A n \in 0 .. lunix_sensor_cnt - 1 :
          \/ lunix_sensors[n] = InitSensors[n]
          \/ \E k \in WholeFor(n + 1) :
                 lunix_sensors[n].values =
                     <<stream.sent[k].batt, stream.sent[k].temp, stream.sent[k].light>>
    /\ (stream.cut > 0 /\ fed <= stream.cut) =>
          applied = <<>> /\ lunix_sensors = InitSensors

(***************************************************************************)
(* C27.                                                                    *)
(***************************************************************************)
\* the step is a call of lunix_chrdev_state_needs_refresh by thread t: the
\* test at the start of lunix_chrdev_state_update, or the condition of
\* wait_event_interruptible, tested on entry and after each wake-up
EvaluatesNeedsRefresh(t) ==
    pc[t] \in {"update", "wait", "w_cond"} /\ pc'[t] # pc[t]
\* the call returned 1: the thread goes on to the refresh, or leaves the wait
ReturnedStale(t) == pc'[t] \in {"spin", "redown"}

\* C27 as stated: every call of needsRefresh returns true exactly when the
\* cached timestamp of the session differs from the timestamp of its kind in
\* the sensor, and is made by a thread that holds the sensor lock.  The code
\* does not satisfy the second part, on either path.
C27_NeedsRefreshUnderLock ==
    [][\A t \in Threads :
          EvaluatesNeedsRefresh(t) =>
              /\ ReturnedStale(t) <=> NeedsRefresh(rs[t])
              /\ slock = t]_vars

\* C27, amended: every call of needsRefresh returns true exactly when the
\* cached timestamp of the session differs from the timestamp of its kind in
\* the sensor at the moment of the call, and the caller does not hold the
\* sensor lock, on either path: the timestamp is read whoever holds the lock.
\* The timestamp that a refresh caches is read again, under the lock.
C27_NeedsRefreshUnlocked ==
    /\ [][\A t \in Threads :
             EvaluatesNeedsRefresh(t) =>
                 /\ ReturnedStale(t) <=> NeedsRefresh(rs[t])
                 /\ slock # t]_vars
    /\ [][\A t \in Threads :
             l_last_update'[t] # l_last_update[t] /\ pc'[t] # "idle" => slock = t]_vars

\* a reader is about to call needsRefresh, at the start of a refresh or in
\* the wait, while the update holds the sensor lock with its stamps written
C27_Witness ==
    /\ ppc = "unlock" /\ slock = "prod"
    /\ \E t \in Threads : pc[t] = "update" /\ NeedsRefresh(rs[t])
    /\ \E t \in Threads : pc[t] = "w_cond" /\ NeedsRefresh(rs[t])

(***************************************************************************)
(* C28.                                                                    *)
(***************************************************************************)
\* the text snprintf leaves in buf_data for raw value raw of kind k
RenderingOf(k, raw) == SnprintfStored(FormatValue(Convert(k, raw)), LUNIX_CHRDEV_BUFSZ)

\* C28: a refresh that finds needsRefresh false returns -EAGAIN (the read
\* goes on to its wait) and leaves cache, cached timestamp and offset of the
\* session as they were; one that finds it true goes on to the sensor lock
\* and, in one critical section, copies the raw value and the timestamp of
\* the session's kind, both written by one update; and the store that ends
\* a refresh caches the timestamp of that snapshot and the rendering of the
\* raw value of that snapshot, whatever the sensor holds by then.
C28_RefreshSnapshot ==
    /\ [][\A t \in Threads :
             (pc[t] = "update" /\ pc'[t] # pc[t]) =>
                 /\ SessFields(rs[t])' = SessFields(rs[t])
                 /\ pc'[t] = IF NeedsRefresh(rs[t]) THEN "spin" ELSE "wait"]_vars
    /\ [][\A t \in Threads :
             (pc[t] = "locked" /\ pc'[t] # pc[t]) =>
                 /\ slock = t /\ slock' = "free"
                 /\ raw_data'[t] = values[type[rs[t]]]
                 /\ l_last_update'[t] = last_update[type[rs[t]]]
                 /\ SessFields(rs[t])' = SessFields(rs[t])]_vars
    /\ [](\A t \in Threads : pc[t] = "store" => snap_by[t][1] = snap_by[t][2])
    /\ [][\A t \in Threads :
             (pc[t] = "store" /\ pc'[t] # pc[t]) =>
                 /\ buf_timestamp'[rs[t]] = l_last_update[t]
                 /\ buf_data'[rs[t]] = RenderingOf(type[rs[t]], raw_data[t])
                 /\ buf_lim'[rs[t]] = Len(buf_data'[rs[t]])
                 /\ f_pos'[rs[t]] = f_pos[rs[t]]]_vars

\* a refresh has succeeded on the snapshot of the first update while the
\* sensor already holds the value and the stamp of the second
C28_Witness ==
    \E t \in Threads :
        /\ pc[t] = "copy"
        /\ cache_by[rs[t]] = 1 /\ stamp_by[type[rs[t]]] = 2
        /\ values[type[rs[t]]] # raw_data[t]
        /\ last_update[type[rs[t]]] # l_last_update[t]
        /\ buf_timestamp[rs[t]] = l_last_update[t]
        /\ buf_data[rs[t]] = RenderingOf(type[rs[t]], raw_data[t])

(***************************************************************************)
(* C29.                                                                    *)
(***************************************************************************)
\* the value read in SEEKING_PAYLOAD_LENGTH, the seventh byte of the packet
PayloadLen(st) == PacketByte(st.packet, 6)

\* the number of unescaped bytes a stage stores
StageCount(st) ==
    CASE st.state \in {"SEEKING_DESTINATION_ADDRESS", "SEEKING_CRC"} -> 2
      [] st.state = "SEEKING_PAYLOAD" -> PayloadLen(st)
      [] OTHER -> 1

\* the number of bytes stored when a stage is entered: the sum of the counts
\* of the stages before it
StageBase(st) ==
    CASE st.state = "SEEKING_START_BYTE" -> 0
      [] st.state = "SEEKING_PACKET_TYPE" -> 1
      [] st.state = "SEEKING_DESTINATION_ADDRESS" -> 1 + 1
      [] st.state = "SEEKING_AM_TYPE" -> 1 + 1 + 2
      [] st.state = "SEEKING_AM_GROUP" -> 1 + 1 + 2 + 1
      [] st.state = "SEEKING_PAYLOAD_LENGTH" -> 1 + 1 + 2 + 1 + 1
      [] st.state = "SEEKING_PAYLOAD" -> 1 + 1 + 2 + 1 + 1 + 1
      [] st.state = "SEEKING_CRC" -> 1 + 1 + 2 + 1 + 1 + 1 + PayloadLen(st)
      [] st.state = "SEEKING_END_BYTE" -> 1 + 1 + 2 + 1 + 1 + 1 + PayloadLen(st) + 2

\* the stage after a stage, the first one after the last
StageIndex(stage) == CHOOSE k \in 1 .. Len(Stages) : Stages[k] = stage
NextStage(stage) == Stages[(StageIndex(stage) % Len(Stages)) + 1]

\* the state in which a reset to SEEKING_START_BYTE leaves the parser
IsReset(st) ==
    /\ st.state = "SEEKING_START_BYTE"
    /\ st.pos = 0 /\ st.bytes_read = 0 /\ st.bytes_to_read = 1
    /\ st.next_is_special = 0

\* the state after a reset to SEEKING_START_BYTE followed, on the same
\* byte 0x7E, by the step from SEEKING_START_BYTE to SEEKING_PACKET_TYPE
ResetThenStart(st) ==
    lunix_protocol_received_buf(
        [ParserContext EXCEPT !.st = lunix_protocol_init(st)],
        <<FLAG_BYTE>>, 0, Max(now, 1)).st

NothingEmitted == applied' = applied /\ lunix_sensors' = lunix_sensors

RefreshedInCall(t) == snap_by[t][2] # 0
\* the call of thread t has copied bytes to its caller from offset 0
DeliveredFromStart(t) ==
    pc[t] \in {"rewind", "out"} /\ outcome[t] = "bytes" /\ pos0[t] = 0

\* C31: a read that delivers bytes from offset 0 has taken a snapshot of
\* the sensor in that same call and the session's cache is the one built
\* from it; a thread leaves the wait only when needsRefresh was true when
\* tested, goes back to the test of lunix_chrdev_state_update once it has
\* the session lock again, and from there refreshes if needsRefresh is
\* true and waits again if it is not (whatever woke it); the loop is left
\* only for the refresh or by an interruption; and every refresh of a
\* session caches a strictly newer update than the one cached before, so
\* the text of one update is never delivered from offset 0 twice.
C31_RecheckAfterWake ==
    /\ [](\A t \in Threads :
             DeliveredFromStart(t) =>
                 /\ RefreshedInCall(t)
                 /\ cache_by[rs[t]] = snap_by[t][2]
                 /\ buf_timestamp[rs[t]] = l_last_update[t]
                 /\ buf_data[rs[t]] = SnprintfStored(
                        FormatValue(Convert(type[rs[t]], raw_data[t])), LUNIX_CHRDEV_BUFSZ))
    /\ [][\A t \in Threads :
             /\ (pc[t] \in WaitPcs /\ pc'[t] = "redown") => NeedsRefresh(rs[t])
             /\ (pc[t] = "redown" /\ pc'[t] # "redown") =>
                    \/ pc'[t] = "update" /\ held'[t] = 1
                    \/ pc'[t] = "idle" /\ outcome'[t] = "ERESTARTSYS"
             /\ (pc[t] = "update" /\ pc'[t] # "update") =>
                    pc'[t] = IF NeedsRefresh(rs[t]) THEN "spin" ELSE "wait"
             /\ (pc[t] \in LoopPcs /\ pc'[t] \notin LoopPcs) =>
                    \/ pc'[t] = "spin"
                    \/ pc'[t] = "idle" /\ outcome'[t] = "ERESTARTSYS"]_vars
    /\ [][\A s \in Sessions :
             (opened[s] /\ opened'[s] /\ cache_by'[s] # cache_by[s]) =>
                 cache_by'[s] > cache_by[s]]_vars

\* one thread delivers from offset 0 the text of the second update, which
\* it has just cached, while the other, woken by the same update, is on its
\* way back to a test that will find nothing new
C31_Witness ==
    \E t, u \in Threads :
        /\ t # u
        /\ rs[t] = rs[u]
        /\ DeliveredFromStart(t)
        /\ snap_by[t] = <<2, 2>>
        /\ pc[u] = "redown"
        /\ ~NeedsRefresh(rs[u])

(***************************************************************************)
(* C32.                                                                    *)
(***************************************************************************)
\* C32: a read call whose cnt is at least 1 never ends with end-of-data; no
\* read is running on a session (its lock is free) only with the offset 0
\* or below the cache length; and the cache length is positive once a
\* refresh has succeeded.  (The code does not satisfy it.)
C32_NeverEndOfData ==
    /\ \A t \in Threads : (pc[t] = "out" /\ cnt[t] >= 1) => outcome[t] # "eof"
    /\ \A s \in Sessions :
           (opened[s] /\ lock[s] = 1) => (f_pos[s] = 0 \/ f_pos[s] < buf_lim[s])
    /\ \A s \in Sessions : cache_by[s] > 0 => buf_lim[s] > 0

(***************************************************************************)
(* C33.                                                                    *)
(***************************************************************************)
\* C33: while the offset of an open session is greater than 0 no step
\* changes its cache text, cache length or cached timestamp; every slice a
\* read delivers is the cache text from the offset the call found, at least
\* one byte long; and the offset goes back to 0 only from the end of the
\* cache text: the slices delivered from one rewind to the next, which
\* follow one another in the text, make up the whole text of one snapshot.
\* (The code does not satisfy it.)
C33_CycleIsOneSnapshot ==
    /\ [][\A s \in Sessions :
             (opened[s] /\ opened'[s] /\ f_pos[s] > 0) =>
                 /\ buf_data'[s] = buf_data[s]
                 /\ buf_lim'[s] = buf_lim[s]
                 /\ buf_timestamp'[s] = buf_timestamp[s]]_vars
    /\ [](\A t \in Threads :
             (pc[t] \in {"rewind", "out"} /\ outcome[t] = "bytes") =>
                 /\ ret[t] >= 1
                 /\ delivered[t] = SubSeq(buf_data[rs[t]], pos0[t] + 1, pos0[t] + ret[t]))
    /\ [][\A s \in Sessions :
             (opened[s] /\ opened'[s] /\ f_pos[s] > 0 /\ f_pos'[s] = 0) =>
                 f_pos[s] = buf_lim[s]]_vars

\* the bytes of two snapshots in one cycle: five bytes of "-272.150\n" have
\* been delivered, and the call that then refreshed the cache to "26.035\n"
\* delivers the rest of the cycle from it
C33_TornCycle ==
    \E t \in Threads :
        /\ pc[t] = "rewind"
        /\ pos0[t] = 5
        /\ RefreshedInCall(t)
        /\ delivered[t] = <<"5", "\n">>

(***************************************************************************)
(* C34.                                                                    *)
(***************************************************************************)
\* the threads that have taken the lock of session s and not given it back
HoldersOf(s) == {t \in Threads : rs[t] = s /\ held[t] = 1}

\* C34: the count of a session's semaphore is 0 or 1, and it is 0 exactly
\* while one thread holds the lock; a thread holds it at most once and holds
\* nothing outside a call; every step that raises the count is taken by the
\* thread that holds the lock, which then holds it no more, and every step
\* that lowers it gives the lock to the thread that takes the step; a call
\* that ends with -ERESTARTSYS ends holding nothing and without changing the
\* count of any semaphore.
C34_BinarySessionLock ==
    /\ [](\A s \in Sessions :
             /\ lock[s] \in {0, 1}
             /\ lock[s] + Cardinality(HoldersOf(s)) = 1)
    /\ [](\A t \in Threads :
             /\ held[t] \in {0, 1}
             /\ pc[t] = "idle" => held[t] = 0)
    /\ [][\A s \in Sessions :
             /\ lock'[s] > lock[s] =>
                    \E t \in Threads :
                        rs[t] = s /\ held[t] = 1 /\ held'[t] = 0 /\ lock'[s] = lock[s] + 1
             /\ lock'[s] < lock[s] =>
                    \E t \in Threads :
                        rs[t] = s /\ held[t] = 0 /\ held'[t] = 1 /\ lock'[s] = lock[s] - 1]_vars
    /\ [][\A t \in Threads :
             (pc[t] # "idle" /\ pc'[t] = "idle" /\ outcome'[t] = "ERESTARTSYS") =>
                 held[t] = 0 /\ held'[t] = 0 /\ lock' = lock]_vars

\* a call has ended with -ERESTARTSYS at down_interruptible while the other
\* thread of the session holds the lock, about to copy
C34_Witness ==
    \E t, u \in Threads :
        /\ pc[t] = "idle"
        /\ outcome[t] = "ERESTARTSYS"
        /\ pc[u] = "copy"
        /\ held[u] = 1
        /\ lock[rs[u]] = 0
        /\ wq = {}
        /\ running[t]

(***************************************************************************)
(* C35.                                                                    *)
(***************************************************************************)
\* session s is open and no refresh of it has been completed
NewSession(s) == opened[s] /\ cache_by[s] = 0
\* the sensor's stamp for the kind of session s is not the zero of
\* lunix_sensor_init
SensorStamped(s) == last_update[type[s]] # 0

\* C35: a session that has not been refreshed since its open has cached
\* timestamp 0, cache length 0 and offset 0, and for it needsRefresh is
\* true exactly when the sensor's stamp for its kind is non-zero, which is
\* exactly when an update has stamped that kind; a read of such a session
\* goes from the test of lunix_chrdev_state_update to the refresh when the
\* stamp is non-zero and to the wait when it is zero; it leaves the wait
\* only once the stamp is non-zero or by an interruption; the refresh goes
\* on to the copy step without waiting, and the copy step of a call that
\* has refreshed, at offset 0, with cnt at least 1 and a writable buffer,
\* delivers at least one byte.
C35_FirstRead ==
    /\ [](\A s \in Sessions :
             NewSession(s) =>
                 /\ buf_timestamp[s] = 0 /\ buf_lim[s] = 0 /\ f_pos[s] = 0
                 /\ NeedsRefresh(s) <=> SensorStamped(s)
                 /\ SensorStamped(s) <=> stamp_by[type[s]] >= 1)
    /\ [][\A s \in Sessions : (~opened[s] /\ opened'[s]) => NewSession(s)']_vars
    /\ [][\A t \in Threads :
             /\ (pc[t] = "update" /\ NewSession(rs[t]) /\ pc'[t] # "update") =>
                    pc'[t] = IF SensorStamped(rs[t]) THEN "spin" ELSE "wait"
             /\ (pc[t] \in WaitPcs /\ NewSession(rs[t]) /\ pc'[t] \notin WaitPcs) =>
                    \/ pc'[t] = "redown" /\ SensorStamped(rs[t])
                    \/ pc'[t] = "idle" /\ outcome'[t] = "ERESTARTSYS"
             /\ pc[t] \in RefreshPcs => pc'[t] \in RefreshPcs \cup {"copy"}
             /\ (/\ pc[t] = "copy" /\ pc'[t] # "copy"
                 /\ RefreshedInCall(t) /\ f_pos[rs[t]] = 0
                 /\ cnt'[t] >= 1 /\ outcome'[t] # "EFAULT") =>
                    /\ outcome'[t] = "bytes"
                    /\ Len(delivered'[t]) >= 1
                    /\ delivered'[t] = SubSeq(buf_data[rs[t]], 1, Len(delivered'[t]))]_vars

\* a session opened after both updates of the sensor, never refreshed, its
\* first read at the test of lunix_chrdev_state_update with the lock held
C35_Witness ==
    \E t \in Threads :
        /\ pc[t] = "update"
        /\ NewSession(rs[t])
        /\ held[t] = 1
        /\ stamp_by[type[rs[t]]] = MaxUpdates
        /\ ppc = "idle"
        /\ \A u \in Threads \ {t} : pc[u] = "idle"

\* the first read of a session on a sensor never updated is asleep
C35_WitnessBlocked ==
    \E t \in Threads :
        /\ Asleep(t)
        /\ NewSession(rs[t])
        /\ ~SensorStamped(rs[t])

(***************************************************************************)
(* C36.                                                                    *)
(***************************************************************************)
\* C36: a call of read that has refreshed its session's cache and whose
\* copy to the caller has not failed returns at least one byte of that
\* cache, whatever its cnt, 0 included: no call leaves a cache it has just
\* built undelivered, for the session to block on at its next read from
\* offset 0.  (The code does not satisfy it.)
C36_NoRefreshedValueLost ==
    \A t \in Threads :
        (pc[t] = "out" /\ RefreshedInCall(t) /\ outcome[t] # "EFAULT") =>
            /\ outcome[t] = "bytes"
            /\ Len(delivered[t]) >= 1

(***************************************************************************)
(* C37.                                                                    *)
(***************************************************************************)
\* the milliUnits a rendered text reads as: the number before the point
\* times 1000, and the three digits after it added to it, or taken from it
\* when the text begins with a minus sign
TextRead(text) ==
    LET n == Len(text)
        int == SubSeq(text, 1, n - 5)
        f == NumberRead(SubSeq(text, n - 3, n - 1))
    IN  IF Head(int) = "-" THEN 1000 * SignedRead(int) - f
        ELSE 1000 * SignedRead(int) + f

\* C37: the text rendered for a value of the tables is rendered for no
\* other value of the tables, and read back it gives the value, negative
\* values and values between -1000 and 1000 included.  (The code does not
\* satisfy it.)
C37_RenderingInjective ==
    rendered_lim # -1 =>
        /\ \A y \in Samples :
               SnprintfStored(FormatValue(Convert(y[1], y[2])), LUNIX_CHRDEV_BUFSZ)
                       = rendered_data
                   => Convert(y[1], y[2]) = converted_value
        /\ TextRead(rendered_data) = converted_value

(***************************************************************************)
(* C38.                                                                    *)
(***************************************************************************)
\* the bytes of the last packet of a stream of StaleStreams
LastFrameOf(str) ==
    SubSeq(str.bytes, Len(OnWireAll(str.sent)) + 1, Len(str.bytes))
\* what is handed to lunix_protocol_update_sensors when bytes are given to
\* a parser that has seen no packet before
HandedAlone(bytes) ==
    lunix_protocol_received_buf(
        [st |-> InitProtocolState, sensors |-> InitSensors, applied |-> <<>>],
        bytes, 0, Max(now, 1)).applied

\* C38: when a packet with the signature of measurements has been read up
\* to its end byte, the offsets that lunix_protocol_update_sensors reads
\* (4, 9, 18, 20 and the two bytes at 22) lie below the position the
\* packet has been written to; and what is handed over for the last packet
\* of a stream is what is handed over for the same bytes when no packet
\* came before them, whatever its payload length.  (The code does not
\* satisfy it.)
C38_AppliedFromFrameOnly ==
    /\ (/\ lunix_protocol_state.state = "SEEKING_END_BYTE"
        /\ PacketByte(lunix_protocol_state.packet, PACKET_SIGNATURE_OFFSET)
               = SENSOR_SIGNATURE)
           => LIGHT_OFFSET + 1 < lunix_protocol_state.pos
    /\ (stream \in StaleStreams /\ AllFed) =>
           /\ Len(applied) = Len(stream.sent) + 1
           /\ applied[Len(applied)] = HandedAlone(LastFrameOf(stream))[1]

\* a state the code reaches: the short packet names node 2 and carries no
\* measurement, and sensor 1 is given the 512s that node 1 sent before
C38_StaleValues ==
    /\ stream \in StaleStreams /\ AllFed
    /\ Len(applied) = 2 /\ applied[2].nodeid = 2 /\ applied[2].temp = 512
    /\ lunix_sensors[1].values = <<512, 512, 512>>

(***************************************************************************)
(* C39.                                                                    *)
(***************************************************************************)
\* thread t is between taking the session lock and giving it back
InLockedPart(t) ==
    pc[t] \in {"update", "spin", "locked", "store", "copy", "rewind", "out"}

\* C39: of the threads reading through one session at most one is between
\* the down and the up of the session lock; a step that delivers bytes to a
\* thread delivers the cache text from the shared offset on and moves the
\* offset to the end of the slice, so the next slice, whichever thread gets
\* it, starts where this one ended; the offset moves in no other way except
\* back to 0 from the end of the text; and the cached text is replaced by
\* that of another update only at offset 0, that is, never while some of
\* its bytes have been delivered and the others not: every byte of the
\* cached text is delivered exactly once.  (The code does not satisfy it.)
C39_SlicesPartitionText ==
    /\ [](\A t, u \in Threads :
             (t # u /\ rs[t] = rs[u] /\ InLockedPart(t) /\ held[t] = 1) =>
                 ~(InLockedPart(u) /\ held[u] = 1))
    /\ [][\A t \in Threads :
             (pc[t] = "copy" /\ pc'[t] = "rewind") =>
                 /\ held[t] = 1
                 /\ ret'[t] >= 1
                 /\ delivered'[t] =
                        SubSeq(buf_data[rs[t]], f_pos[rs[t]] + 1, f_pos'[rs[t]])
                 /\ f_pos'[rs[t]] = f_pos[rs[t]] + ret'[t]
                 /\ f_pos'[rs[t]] <= buf_lim[rs[t]]]_vars
    /\ [][\A s \in Sessions :
             (opened[s] /\ opened'[s] /\ f_pos'[s] # f_pos[s]) =>
                 \/ \E t \in Threads :
                        rs[t] = s /\ pc[t] = "copy" /\ pc'[t] = "rewind"
                 \/ f_pos[s] = buf_lim[s] /\ f_pos'[s] = 0]_vars
    /\ [][\A s \in Sessions :
             (opened[s] /\ opened'[s] /\ cache_by'[s] # cache_by[s]) =>
                 f_pos[s] = 0]_vars

\* bytes skipped: five of the nine bytes of "-272.150\n" have been
\* delivered, the other four never are, and of "26.035\n", which replaced
\* it, the first five are passed over
C39_SkippedBytes ==
    \E t \in Threads :
        /\ pc[t] = "out" /\ outcome[t] = "bytes"
        /\ pos0[t] = 5 /\ RefreshedInCall(t)
        /\ delivered[t] = <<"5", "\n">>
        /\ f_pos[rs[t]] = 0

(***************************************************************************)
(* C40.                                                                    *)
(***************************************************************************)
\* the call number u of lunix_sensor_update has returned
Completed(u) == nupd > u \/ (nupd = u /\ ppc = "idle")

\* C40: if update u has returned while thread t is in no call, then every
\* later call of t that delivers bytes from offset 0 delivers the value of
\* update u or of a later one; the value and the stamp such a call took are
\* those of one update, whose text the cache holds and the delivered bytes
\* come from; and that update was the sensor's current one when the call
\* took them, under sensor->lock, between its entry and its return: the
\* last update begun, or the one before it while the last has stored
\* nothing yet.
C40_Freshness ==
    /\ \A t \in Threads : \A u \in 1 .. MaxUpdates :
           []((pc[t] = "idle" /\ Completed(u)) =>
                  [](DeliveredFromStart(t) => snap_by[t][1] >= u))
    /\ [](\A t \in Threads :
             DeliveredFromStart(t) =>
                 /\ snap_by[t][1] = snap_by[t][2]
                 /\ snap_by[t][1] >= 1
                 /\ cache_by[rs[t]] = snap_by[t][1]
                 /\ buf_data[rs[t]] = FormatValue(Convert(type[rs[t]], raw_data[t]))
                 /\ delivered[t] = SubSeq(buf_data[rs[t]], 1, ret[t]))
    /\ [][\A t \in Threads :
             (pc[t] = "locked" /\ pc'[t] = "store") =>
                 /\ slock = t
                 /\ raw_data'[t] = values[type[rs[t]]]
                 /\ snap_by'[t] = <<val_by[type[rs[t]]], val_by[type[rs[t]]]>>
                 /\ val_by[type[rs[t]]] =
                        IF ppc = "lock" THEN nupd - 1 ELSE nupd]_vars

\* a call delivers from offset 0 the whole text of update 2, the last
\* update, which has returned
C40_Witness ==
    \E t \in Threads :
        /\ DeliveredFromStart(t)
        /\ snap_by[t] = <<2, 2>>
        /\ Completed(2)
        /\ delivered[t] = buf_data[rs[t]]

=============================================================================
